---- MODULE Spec2Model ----
(***************************************************************************)
(* A model of the ecoflow client library (github.com/tknie/ecoflow):       *)
(*   - the MQTT message handler with its per-device statistics             *)
(*     (protobuf.go),                                                      *)
(*   - the signed HTTP request and the envelope operations built on it     *)
(*     (the REST client, ecoflow.go),                                      *)
(*   - the broker credential exchange and the subscription loop            *)
(*     (mqtt_ecoflow.go, the MQTT glue).                                   *)
(*                                                                         *)
(* Go strings and byte slices are sequences of byte values (naturals), so  *)
(* that byte order and substring search are what they are in the code.     *)
(* Go maps are TLA+ functions; interface{} values are tagged records       *)
(* [t |-> tag, v |-> value].                                               *)
(***************************************************************************)
EXTENDS Integers, Sequences, FiniteSets, TLC

\* ------------------------------------------------------------------ bounds

\* Number of goroutines that may run MessageHandler at the same time.
NumHandlers == 2
\* Number of broker messages handed to the handlers in one behaviour.
MaxMsgs == 2
\* Longest non-JSON payload, in bytes.
MaxPayloadLen == 4
\* Number of times the broker connection is established in one behaviour.
MaxConnects == 2
\* Longest binary frame before its marker, in encoded elements.
MaxFrameLen == 3
\* the number of times a caller executes the HttpRequest it keeps
MaxExecutes == 2

\* ------------------------------------------------------------------- state

VARIABLES
    \* the message handler and the statistics (protobuf.go)
    debug,        \* log.IsDebugLevel()
    mapStatMqtt,  \* serial -> the statMqtt it maps to (an index of statHeap, 0: none)
    statHeap,     \* the statMqtt objects allocated so far
    mqttStatMap,  \* topic -> number of messages (0: no entry)
    pc,           \* where each handler goroutine stands
    msg,          \* the message each handler was invoked with, and its place
                  \* among the messages handed over for its device
    stat,         \* each handler's stat pointer (an index of statHeap, 0: unset)
    loc,          \* each handler's index, start and end, and the slices it has
                  \* handed to DisplayPayload
    out,          \* what each handler's invocation handed to the callbacks, in order
    fault,        \* "none", or how the process died: "panic", "fatal"
    received,     \* per serial, the number of handler invocations started
    \* the canonical query string as a function of its input
    signInput,    \* the parameter mapping the query string is built from
    built,        \* the constructions made from it so far
    \* the signed HTTP call and the envelope operations
    call,         \* the operation waiting for the vendor's response, if any
    signed,       \* the sign parameters generated last
    sent,         \* the HTTP request sent last
    ret,          \* what the last operation returned, and to which method and
                  \* selector
    \* an HttpRequest executed more than once
    held,         \* the HttpRequest a caller built and keeps
    signlog,      \* per Execute of it: the nonce drawn, the timestamp read, the
                  \* sign parameters it used and the request it sent
    \* the record prepared for the database
    inserted,     \* the field mapping insertMqttData was called with, and the
                  \* field names and rows it returned
    \* the credential exchange, the known devices and the subscriptions
    devices,      \* the known devices: nil, or the device list fetched last
    phase,        \* where InitMqtt and the broker connection stand
    login,        \* what getLoginResponse returned to getMqttCredentials
    certReq,      \* the certification request
    creds,        \* what getMqttCredentials returned, and whether the vendor had
                  \* accepted both of its requests
    ecoclient,    \* the MQTT client's options
    connectRet,   \* what MqttClient.Connect returned to InitMqtt
    connects,     \* the number of times the connection was established
    oc            \* the invocation of OnConnect: its position, range, index, requests

hvars == <<debug, mapStatMqtt, statHeap, mqttStatMap, pc, msg, stat, loc, out,
           fault, received>>
svars == <<signInput, built>>
avars == <<call, signed, sent, ret>>
rvars == <<held, signlog>>
mvars == <<devices, phase, login, certReq, creds, ecoclient, connectRet, connects,
           oc>>

\* ------------------------------------------------------- interface{} values

\* an int
GoInt(n) == [t |-> "int", v |-> n]
\* a float64, given in tenths: Float(25) is 2.5
Float(tenths) == [t |-> "float64", v |-> tenths]
\* a JSON number without a fraction, which json.Unmarshal decodes to a float64
Num(n) == Float(10 * n)
Bool(b) == [t |-> "bool", v |-> b]
Str(s) == [t |-> "string", v |-> s]
List(s) == [t |-> "list", v |-> s]
Obj(m) == [t |-> "map", v |-> m]
Null == [t |-> "null", v |-> 0]
\* time.Now(): the receipt time, one opaque value
Now == [t |-> "time", v |-> 0]

EmptyMap == <<>>

\* ------------------------------------------------------------ byte strings

\* payload[start:end], with Go's 0-based half-open bounds
Slice(s, start, end) == SubSeq(s, start + 1, end)

IsPrefixAt(s, sep, i) ==
    /\ i + Len(sep) <= Len(s)
    /\ \A k \in 1..Len(sep) : s[i + k] = sep[k]

\* bytes.Index(s, sep): the 0-based index of the first occurrence, or -1
BytesIndex(s, sep) ==
    LET hits == {i \in 0..Len(s) : IsPrefixAt(s, sep, i)}
    IN  IF hits = {} THEN -1
        ELSE CHOOSE i \in hits : \A j \in hits : i <= j

\* ------------------------------------------------------------ the devices

\* Device serial numbers "A" and "AA" (the first is a prefix of the second).
Serials == {<<65>>, <<65, 65>>}

\* The topic of a device, as its path segments: /app/device/property/<serial>
TopicOf(deviceSn) == <<"", "app", "device", "property", deviceSn>>

\* getSnFromTopic: the last segment of the topic split at "/"
getSnFromTopic(topic) == topic[Len(topic)]

\* ------------------------------------------------- the binary wire contract
(* The generated protobuf types (SendHeaderMsg, Header, InverterHeartbeat,  *)
(* PowerPack) are not part of the sources; the wire contract is modelled on *)
(* bytes that each stand for one encoded element:                           *)
(*   255      a byte no field can start with (the envelope does not parse)  *)
(*   1, 32, 7 the cmd_id field, holding that command id                     *)
(*   100      one well-formed element of pdata                              *)
(*   101      one corrupt element of pdata                                  *)
(*   65       a character of the device_sn field                            *)
WireBytes == {255, 1, 32, 7, 100, 101, 65}

IsCmdByte(b) == b \in {1, 32, 7}
IsPdataByte(b) == b \in {100, 101}

\* proto.Unmarshal(payload, &SendHeaderMsg{}): the envelope, or an error.
\* The empty input parses to an envelope without a header (Msg == nil).
UnmarshalSendHeaderMsg(b) ==
    LET cmds == SelectSeq(b, IsCmdByte)
    IN  [err    |-> \E i \in 1..Len(b) : b[i] = 255,
         hasMsg |-> Len(b) > 0,
         cmdId  |-> IF cmds = <<>> THEN 0 ELSE cmds[Len(cmds)],
         pdata  |-> SelectSeq(b, IsPdataByte)]

\* proto.Unmarshal(platform.Msg.Pdata, &InverterHeartbeat{})
UnmarshalInverterHeartbeat(pdata) ==
    [err |-> \E i \in 1..Len(pdata) : pdata[i] = 101,
     ih  |-> [type |-> "InverterHeartbeat", n |-> Len(pdata)]]

\* proto.Unmarshal(platform.Msg.Pdata, &PowerPack{}): one SysPowerStream
\* element per element of pdata
UnmarshalPowerPack(pdata) ==
    [err |-> \E i \in 1..Len(pdata) : pdata[i] = 101,
     SysPowerStream |-> [i \in 1..Len(pdata) |-> [type |-> "PowerStream", n |-> i]]]

\* --------------------------------------------------------------- payloads
(* A broker payload is either a JSON text that json.Unmarshal decodes into  *)
(* a map[string]interface{} (a JSON object, or null which leaves the map    *)
(* nil), given by the decoded document, or any other byte string (which     *)
(* json.Unmarshal rejects), given by its bytes.                             *)

EnvelopeFields ==
    ("cmdId" :> Num(1)) @@ ("cmdFunc" :> Num(2)) @@ ("version" :> Str(<<49>>))
        @@ ("id" :> Num(3))
\* an envelope whose cmdId is not a number
OddEnvelopeFields ==
    ("cmdId" :> Str(<<49>>)) @@ ("cmdFunc" :> Num(2)) @@ ("version" :> Str(<<49>>))
        @@ ("id" :> Num(3))

FieldValue(k) ==
    CASE k = "serial_number" -> Str(<<90>>)
      [] k = "timestamp"     -> Num(5)
      [] OTHER               -> Num(1)

FieldMaps == {[k \in S |-> FieldValue(k)] : S \in SUBSET {"x", "serial_number", "timestamp"}}

ParamsParts ==
    {EmptyMap, "params" :> Num(1), "params" :> Null}
        \cup {"params" :> Obj(f) : f \in FieldMaps}

JsonObjects ==
    {e @@ p @@ f : e \in {EmptyMap, EnvelopeFields, OddEnvelopeFields},
                   p \in ParamsParts, f \in FieldMaps}

GoMap(m) == [nil |-> FALSE, m |-> m]
NilMap == [nil |-> TRUE, m |-> EmptyMap]

JsonPayloads ==
    {[kind |-> "json", doc |-> GoMap(m), bytes |-> <<>>] : m \in JsonObjects}
        \cup {[kind |-> "json", doc |-> NilMap, bytes |-> <<>>]}

ByteStrings(n) == UNION {[1..k -> WireBytes] : k \in 0..n}

BinaryPayloads ==
    {[kind |-> "bin", doc |-> NilMap, bytes |-> b] : b \in ByteStrings(MaxPayloadLen)}

Payloads == JsonPayloads \cup BinaryPayloads

\* The non-JSON payloads made of the marker's byte, a command id and a byte
\* of pdata: with no marker, one, two and more
SlicePayloads ==
    {p \in BinaryPayloads : \A i \in 1..Len(p.bytes) : p.bytes[i] \in {65, 1, 100}}

\* the sequences over a set of at most n elements
SeqsUpTo(S, n) == UNION {[1..k -> S] : k \in 0..n}

\* A binary frame up to its marker: nothing, a byte that does not parse, or
\* a command id followed by the elements of pdata.
FrameBodies ==
    {<<>>, <<255>>}
        \cup {<<c>> \o p : c \in {1, 32, 7}, p \in SeqsUpTo({100, 101}, MaxFrameLen - 1)}

\* Payloads of one frame or of two concatenated frames, each frame ending
\* with the serial of the device as its marker.
FramedBytes(sn) ==
    {f \o sn : f \in FrameBodies}
        \cup {f1 \o sn \o f2 \o sn : f1 \in FrameBodies, f2 \in FrameBodies}

FramedPayloads(sn) ==
    {[kind |-> "bin", doc |-> NilMap, bytes |-> b] : b \in FramedBytes(sn)}

AllFramedPayloads == UNION {FramedPayloads(sn) : sn \in Serials}

\* json.Unmarshal(payload, &data) with data a map[string]interface{}
JsonUnmarshal(payload) ==
    IF payload.kind = "json"
    THEN [err |-> FALSE, data |-> payload.doc]
    ELSE [err |-> TRUE, data |-> GoMap(EmptyMap)]

\* data[key].(float64) and data[key].(string): the assertion panics unless the
\* key holds a value of that type (a missing key reads as nil)
AssertsAs(data, key, tag) ==
    /\ ~data.nil
    /\ key \in DOMAIN data.m
    /\ data.m[key].t = tag

\* The JSON branch of MessageHandler: the record handed to Callback, or a
\* panic (a failed type assertion, or a write to a nil map).
JsonRecord(serialNumber, data, isDebug) ==
    LET debugPanic ==
            isDebug /\ ~(/\ AssertsAs(data, "cmdId", "float64")
                         /\ AssertsAs(data, "cmdFunc", "float64")
                         /\ AssertsAs(data, "version", "string")
                         /\ AssertsAs(data, "id", "float64"))
        hasParams == ~data.nil /\ "params" \in DOMAIN data.m
        paramsPanic == hasParams /\ ~AssertsAs(data, "params", "map")
        data1 == IF hasParams /\ ~paramsPanic
                 THEN GoMap(data.m["params"].v) ELSE data
        m2 == IF "serial_number" \in DOMAIN data1.m
              THEN data1.m ELSE data1.m @@ ("serial_number" :> Str(serialNumber))
        m3 == IF "timestamp" \in DOMAIN m2
              THEN m2 ELSE m2 @@ ("timestamp" :> Now)
    IN  [panic |-> debugPanic \/ paramsPanic \/ data1.nil,
         rec   |-> m3]

\* DisplayPayload: the entries handed to caller.CallHandler, in order, and
\* the value returned.
DisplayPayload(sn, payload) ==
    LET platform == UnmarshalSendHeaderMsg(payload)
        ih == UnmarshalInverterHeartbeat(platform.pdata)
        pp == UnmarshalPowerPack(platform.pdata)
    IN  IF platform.err THEN [calls |-> <<>>, ret |-> TRUE]
        ELSE CASE platform.cmdId = 1 ->
                    IF ih.err THEN [calls |-> <<>>, ret |-> TRUE]
                    ELSE [calls |-> <<[object |-> ih.ih, serialNumber |-> sn]>>,
                          ret |-> TRUE]
               [] platform.cmdId = 32 ->
                    IF pp.err THEN [calls |-> <<>>, ret |-> TRUE]
                    ELSE [calls |-> [i \in 1..Len(pp.SysPowerStream) |->
                                       [object |-> pp.SysPowerStream[i],
                                        serialNumber |-> sn]],
                          ret |-> TRUE]
               [] OTHER -> [calls |-> <<>>, ret |-> FALSE]

\* ------------------------------------------- the message handler: its state

Handlers == 1..NumHandlers

Topics == {TopicOf(sn) : sn \in Serials}

NoMsg ==
    [topic |-> <<>>, payload |-> [kind |-> "none", doc |-> NilMap, bytes |-> <<>>],
     seq |-> 0]
NoLoc == [index |-> 0, start |-> 0, end |-> 0, frames |-> <<>>]

NewStatMqtt == [mu |-> 0, mqttCounter |-> 0, httpCounter |-> 0]

serialNumber(h) == getSnFromTopic(msg[h].topic)

TotalReceived == received[<<65>>] + received[<<65, 65>>]

HandlerInit ==
    /\ debug = FALSE
    /\ mapStatMqtt = [sn \in Serials |-> 0]
    /\ statHeap = <<>>
    /\ mqttStatMap = [t \in Topics |-> 0]
    /\ pc = [h \in Handlers |-> "idle"]
    /\ msg = [h \in Handlers |-> NoMsg]
    /\ stat = [h \in Handlers |-> 0]
    /\ loc = [h \in Handlers |-> NoLoc]
    /\ out = [h \in Handlers |-> <<>>]
    /\ fault = "none"
    /\ received = [sn \in Serials |-> 0]

\* ----------------------------------------- the message handler: its steps

\* The broker client invokes MessageHandler(client, msg), the message being
\* one on a subscribed topic with a payload of the given set.
Receive(h, payloads) ==
    /\ fault = "none"
    /\ pc[h] = "idle"
    /\ TotalReceived < MaxMsgs
    /\ \E topic \in Topics, payload \in payloads :
        /\ msg' = [msg EXCEPT ![h] =
                       [topic |-> topic, payload |-> payload,
                        seq |-> received[getSnFromTopic(topic)] + 1]]
        /\ received' = [received EXCEPT ![getSnFromTopic(topic)] = @ + 1]
    /\ pc' = [pc EXCEPT ![h] = "lookup"]
    /\ UNCHANGED <<svars, rvars, inserted, avars, mvars, debug, mapStatMqtt,
                   statHeap, mqttStatMap, stat, loc, out, fault>>

\* The application sets the log level before the first message arrives.
SetDebugLevel ==
    /\ fault = "none"
    /\ TotalReceived = 0
    /\ ~debug
    /\ debug' = TRUE
    /\ UNCHANGED <<svars, rvars, inserted, avars, mvars, mapStatMqtt, statHeap,
                   mqttStatMap, pc, msg, stat, loc, out, fault, received>>

\* GetStatEntry, the read of the map: the entry found, or none.
GetStatEntryLookup(h) ==
    /\ fault = "none"
    /\ pc[h] = "lookup"
    /\ IF mapStatMqtt[serialNumber(h)] # 0
       THEN /\ stat' = [stat EXCEPT ![h] = mapStatMqtt[serialNumber(h)]]
            /\ pc' = [pc EXCEPT ![h] = "lock"]
       ELSE /\ pc' = [pc EXCEPT ![h] = "store"]
            /\ UNCHANGED stat
    /\ UNCHANGED <<svars, rvars, inserted, avars, mvars, debug, mapStatMqtt,
                   statHeap, mqttStatMap, msg, loc, out, fault, received>>

\* GetStatEntry, no entry found: a new statMqtt is allocated and stored.
GetStatEntryStore(h) ==
    /\ fault = "none"
    /\ pc[h] = "store"
    /\ statHeap' = Append(statHeap, NewStatMqtt)
    /\ mapStatMqtt' = [mapStatMqtt EXCEPT ![serialNumber(h)] = Len(statHeap) + 1]
    /\ stat' = [stat EXCEPT ![h] = Len(statHeap) + 1]
    /\ pc' = [pc EXCEPT ![h] = "lock"]
    /\ UNCHANGED <<svars, rvars, inserted, avars, mvars, debug, mqttStatMap, msg,
                   loc, out, fault, received>>

\* The map is a plain Go map: a write that overlaps another goroutine's
\* access to it is a data race, which the runtime may detect and end the
\* process for ("fatal error: concurrent map writes").
ConcurrentMapAccess(h) ==
    /\ fault = "none"
    /\ pc[h] = "store"
    /\ \E g \in Handlers \ {h} : pc[g] \in {"lookup", "store"}
    /\ fault' = "fatal"
    /\ UNCHANGED <<svars, rvars, inserted, avars, mvars, debug, mapStatMqtt,
                   statHeap, mqttStatMap, pc, msg, stat, loc, out, received>>

\* stat.mu.Lock()
Lock(h) ==
    /\ fault = "none"
    /\ pc[h] = "lock"
    /\ statHeap[stat[h]].mu = 0
    /\ statHeap' = [statHeap EXCEPT ![stat[h]].mu = h]
    /\ pc' = [pc EXCEPT ![h] = "count"]
    /\ UNCHANGED <<svars, rvars, inserted, avars, mvars, debug, mapStatMqtt,
                   mqttStatMap, msg, stat, loc, out, fault, received>>

\* stat.mqttCounter++ and the topic's counter in mqttStatMap
Count(h) ==
    /\ fault = "none"
    /\ pc[h] = "count"
    /\ statHeap' = [statHeap EXCEPT ![stat[h]].mqttCounter = @ + 1]
    /\ mqttStatMap' = [mqttStatMap EXCEPT ![msg[h].topic] = @ + 1]
    /\ pc' = [pc EXCEPT ![h] = "decode"]
    /\ UNCHANGED <<svars, rvars, inserted, avars, mvars, debug, mapStatMqtt, msg,
                   stat, loc, out, fault, received>>

\* The deferred stat.mu.Unlock()
Unlocked(heap, h) == [heap EXCEPT ![stat[h]].mu = 0]

\* the first frame ending before its marker
BeforeMarker(payload, sn) ==
    LET index == BytesIndex(payload, sn)
    IN  IF index # -1 THEN index ELSE Len(payload)

\* the whole payload taken for the first frame
WholePayload(payload, sn) == Len(payload)

\* The end of the first frame: just past the first marker, or the whole payload.
FirstEnd(payload, sn) ==
    LET index == BytesIndex(payload, sn)
    IN  IF index # -1 THEN index + Len(sn) ELSE Len(payload)

\* a second frame that ends where the first ended
NoSecondFrame(payload, sn, end) == end

\* The end of the second frame, the first having ended at end.
SecondEnd(payload, sn, end) ==
    LET index == BytesIndex(Slice(payload, end, Len(payload)), sn)
    IN  IF index # -1 THEN end + index + Len(sn) ELSE Len(payload)

\* The JSON decode and, for a JSON payload, the record's way to Callback;
\* otherwise the first frame's way through DisplayPayload.
Decode(h) ==
    LET sn == serialNumber(h)
        payload == msg[h].payload
        j == JsonUnmarshal(payload)
        r == JsonRecord(sn, j.data, debug)
        index == BytesIndex(payload.bytes, sn)
        end == FirstEnd(payload.bytes, sn)
        d == DisplayPayload(sn, Slice(payload.bytes, 0, end))
    IN
    /\ fault = "none"
    /\ pc[h] = "decode"
    /\ IF ~j.err
       THEN IF r.panic
            THEN /\ fault' = "panic"
                 /\ pc' = [pc EXCEPT ![h] = "panicked"]
                 /\ statHeap' = Unlocked(statHeap, h)
                 /\ UNCHANGED <<out, loc>>
            ELSE /\ out' = [out EXCEPT ![h] =
                               Append(@, [cb |-> "Callback", data |-> r.rec, sn |-> sn])]
                 /\ pc' = [pc EXCEPT ![h] = "done"]
                 /\ statHeap' = Unlocked(statHeap, h)
                 /\ UNCHANGED <<fault, loc>>
       ELSE /\ out' = [out EXCEPT ![h] =
                          @ \o [i \in 1..Len(d.calls) |->
                                  [cb |-> "caller", data |-> d.calls[i].object,
                                   sn |-> d.calls[i].serialNumber]]]
            /\ loc' = [loc EXCEPT ![h] = [index |-> index, start |-> end, end |-> end,
                                           frames |-> <<<<0, end>>>>]]
            /\ IF Len(payload.bytes) > index + Len(sn)
               THEN /\ pc' = [pc EXCEPT ![h] = "second"]
                    /\ UNCHANGED statHeap
               ELSE /\ pc' = [pc EXCEPT ![h] = "done"]
                    /\ statHeap' = Unlocked(statHeap, h)
            /\ UNCHANGED fault
    /\ UNCHANGED <<svars, rvars, inserted, avars, mvars, debug, mapStatMqtt,
                   mqttStatMap, msg, stat, received>>

\* The second frame: from the end of the first to just past the next marker.
DecodeSecond(h) ==
    LET sn == serialNumber(h)
        payload == msg[h].payload.bytes
        index == BytesIndex(Slice(payload, loc[h].end, Len(payload)), sn)
        end == SecondEnd(payload, sn, loc[h].end)
        d == DisplayPayload(sn, Slice(payload, loc[h].start, end))
    IN
    /\ fault = "none"
    /\ pc[h] = "second"
    /\ out' = [out EXCEPT ![h] =
                  @ \o [i \in 1..Len(d.calls) |->
                          [cb |-> "caller", data |-> d.calls[i].object,
                           sn |-> d.calls[i].serialNumber]]]
    /\ loc' = [loc EXCEPT ![h] =
                  [index |-> index, start |-> loc[h].start, end |-> end,
                   frames |-> Append(loc[h].frames, <<loc[h].start, end>>)]]
    /\ pc' = [pc EXCEPT ![h] = "done"]
    /\ statHeap' = Unlocked(statHeap, h)
    /\ UNCHANGED <<svars, rvars, inserted, avars, mvars, debug, mapStatMqtt,
                   mqttStatMap, msg, stat, fault, received>>

\* MessageHandler has returned; the goroutine is free for the next message.
Return(h) ==
    /\ fault = "none"
    /\ pc[h] = "done"
    /\ pc' = [pc EXCEPT ![h] = "idle"]
    /\ msg' = [msg EXCEPT ![h] = NoMsg]
    /\ stat' = [stat EXCEPT ![h] = 0]
    /\ loc' = [loc EXCEPT ![h] = NoLoc]
    /\ out' = [out EXCEPT ![h] = <<>>]
    /\ UNCHANGED <<svars, rvars, inserted, avars, mvars, debug, mapStatMqtt,
                   statHeap, mqttStatMap, fault, received>>

HandlerStep(h) ==
    \/ GetStatEntryLookup(h)
    \/ GetStatEntryStore(h)
    \/ Lock(h)
    \/ Count(h)
    \/ Decode(h)
    \/ DecodeSecond(h)
    \/ Return(h)

\* ------------------------------------------------------- the request signer

Min(S) == CHOOSE x \in S : \A y \in S : x <= y

\* a < b or a = b in byte order, the order of Go's string comparison
LexLeq(a, b) ==
    LET n == IF Len(a) < Len(b) THEN Len(a) ELSE Len(b)
        diffs == {i \in 1..n : a[i] # b[i]}
    IN  IF diffs = {} THEN Len(a) <= Len(b)
        ELSE a[Min(diffs)] < b[Min(diffs)]

RECURSIVE Digits(_)
Digits(n) == IF n < 10 THEN <<48 + n>> ELSE Digits(n \div 10) \o <<48 + (n % 10)>>

\* strconv.Itoa
Itoa(n) == IF n < 0 THEN <<45>> \o Digits(-n) ELSE Digits(n)

\* strconv.FormatFloat(v, 'f', -1, 64) of the float64 of the given tenths:
\* the shortest decimal text, without a fraction for a whole number
FormatFloat(tenths) ==
    LET abs == IF tenths < 0 THEN -tenths ELSE tenths
        sign == IF tenths < 0 THEN <<45>> ELSE <<>>
    IN  IF abs % 10 = 0 THEN sign \o Digits(abs \div 10)
        ELSE sign \o Digits(abs \div 10) \o <<46, 48 + (abs % 10)>>

\* strconv.FormatBool
FormatBool(b) == IF b THEN <<116, 114, 117, 101>> ELSE <<102, 97, 108, 115, 101>>

\* The keys of a map in the order one range over it visits them: Go leaves the
\* order open, here it is the order the keys have in perm.
RangeKeys(m, perm) ==
    LET InMap(k) == k \in DOMAIN m
    IN  SelectSeq(perm, InMap)

RECURSIVE processValue(_, _, _, _)
RECURSIVE processMap(_, _, _, _, _)
RECURSIVE processList(_, _, _, _, _)

\* the loop of processValue over a nested map, keys being those still to visit
processMap(prefix, m, keys, orders, depth) ==
    IF keys = <<>> THEN <<>>
    ELSE processValue(prefix \o <<46>> \o Head(keys), m[Head(keys)], orders, depth)
            \o processMap(prefix, m, Tail(keys), orders, depth)

\* the loop of processValue over an array, from its i-th item (0-based) on
processList(prefix, items, i, orders, depth) ==
    IF i >= Len(items) THEN <<>>
    ELSE processValue(prefix \o <<91>> \o Itoa(i) \o <<93>>, items[i + 1], orders, depth)
            \o processList(prefix, items, i + 1, orders, depth)

\* processValue: the key=value strings of one value, nested values flattened
\* into dotted and bracketed keys. orders[depth] is the order in which a map at
\* that depth is ranged over.
processValue(prefix, value, orders, depth) ==
    CASE value.t = "map" ->
            processMap(prefix, value.v,
                       RangeKeys(value.v, orders[IF depth < Len(orders) THEN depth + 1
                                                 ELSE Len(orders)]),
                       orders, depth + 1)
      [] value.t = "list" -> processList(prefix, value.v, 0, orders, depth)
      [] value.t = "string" -> <<prefix \o <<61>> \o value.v>>
      [] value.t = "int" -> <<prefix \o <<61>> \o Itoa(value.v)>>
      [] value.t = "float64" -> <<prefix \o <<61>> \o FormatFloat(value.v)>>
      [] value.t = "bool" -> <<prefix \o <<61>> \o FormatBool(value.v)>>
      [] OTHER -> <<>>

RECURSIVE Insert(_, _)
Insert(sorted, x) ==
    IF sorted = <<>> THEN <<x>>
    ELSE IF LexLeq(x, Head(sorted)) THEN <<x>> \o sorted
         ELSE <<Head(sorted)>> \o Insert(Tail(sorted), x)

\* the strings left in the order they were collected in
KeepOrder(list) == list

RECURSIVE SortStrings(_)
\* sort.Strings: the strings in increasing byte order
SortStrings(list) ==
    IF list = <<>> THEN <<>>
    ELSE Insert(SortStrings(Tail(list)), Head(list))

RECURSIVE Join(_, _)
\* strings.Join
Join(list, sep) ==
    IF list = <<>> THEN <<>>
    ELSE IF Len(list) = 1 THEN list[1]
         ELSE list[1] \o sep \o Join(Tail(list), sep)

RECURSIVE processTop(_, _, _)
\* the loop of generateQueryParams over the top-level keys
processTop(m, keys, orders) ==
    IF keys = <<>> THEN <<>>
    ELSE processValue(Head(keys), m[Head(keys)], orders, 1)
            \o processTop(m, Tail(keys), orders)

\* generateQueryParams up to the sort: the sorted key=value strings
sortedQueryParams(data, orders) ==
    SortStrings(processTop(data.m, RangeKeys(data.m, orders[1]), orders))

\* generateQueryParams: the sorted strings joined with &
generateQueryParams(data, orders) == Join(sortedQueryParams(data, orders), <<38>>)

accessKeyHeader == <<97, 99, 99, 101, 115, 115, 75, 101, 121>>
nonceHeader == <<110, 111, 110, 99, 101>>
timestampHeader == <<116, 105, 109, 101, 115, 116, 97, 109, 112>>
signHeader == <<115, 105, 103, 110>>

\* the string that is signed with the query string put last
QueryStringLast(r, queryString, nonce, timestamp) ==
    accessKeyHeader \o <<61>> \o r.accessKey \o <<38>>
        \o nonceHeader \o <<61>> \o nonce \o <<38>>
        \o timestampHeader \o <<61>> \o timestamp
        \o (IF queryString # <<>> THEN <<38>> \o queryString ELSE <<>>)

\* getKeyValueString: the string that is signed
getKeyValueString(r, queryString, nonce, timestamp) ==
    LET keyValueString ==
            accessKeyHeader \o <<61>> \o r.accessKey \o <<38>>
                \o nonceHeader \o <<61>> \o nonce \o <<38>>
                \o timestampHeader \o <<61>> \o timestamp
    IN  IF queryString # <<>>
        THEN queryString \o <<38>> \o keyValueString
        ELSE keyValueString

\* encryptHmacSHA256: the hex HMAC-SHA256 digest, an injective function of the
\* message and the key
encryptHmacSHA256(message, secret) == [hmacSha256 |-> message, key |-> secret]

\* generateSign
generateSign(r, queryString, nonce, timestamp) ==
    encryptHmacSHA256(getKeyValueString(r, queryString, nonce, timestamp), r.secretKey)

\* the sign parameters of the first Execute kept for the later ones
CachedSignParameters(r, nonce, timestamp, orders) ==
    LET queryParams == generateQueryParams(r.requestParameters, orders)
    IN  IF signlog # <<>> THEN signlog[1].signParams
        ELSE [queryParams |-> queryParams,
              nonce       |-> nonce,
              timestamp   |-> timestamp,
              accessKey   |-> r.accessKey,
              sign        |-> generateSign(r, queryParams, nonce, timestamp)]

\* generateSignParameters, with the nonce generateNonce drew, the timestamp
\* generateTimestamp read and the orders the maps are ranged over
generateSignParameters(r, nonce, timestamp, orders) ==
    LET queryParams == generateQueryParams(r.requestParameters, orders)
    IN  [queryParams |-> queryParams,
         nonce       |-> nonce,
         timestamp   |-> timestamp,
         accessKey   |-> r.accessKey,
         sign        |-> generateSign(r, queryParams, nonce, timestamp)]

\* NewHttpRequest
NewHttpRequest(method, uri, params, accessKey, secretKey) ==
    [method |-> method, uri |-> uri, requestParameters |-> params,
     accessKey |-> accessKey, secretKey |-> secretKey]

\* ---------------------------------------- the canonical query string: inputs

\* Parameter names "a", "b" and "a.c" at the top level, "c" and "d" in a
\* nested mapping.
TopKeys == {<<97>>, <<98>>, <<97, 46, 99>>}
NestedKeys == {<<99>>, <<100>>}

MapsOver(keys, values) == UNION {[S -> values] : S \in SUBSET keys}

NestedValues == {Str(<<120>>)}

ParamValues ==
    {Str(<<120>>), GoInt(-3), Float(25), Bool(TRUE), Null,
     List(<<Str(<<120>>), GoInt(10)>>)}
        \cup {Obj(m) : m \in MapsOver(NestedKeys, NestedValues)}

ParamMaps == {GoMap(m) : m \in MapsOver(TopKeys, ParamValues)} \cup {NilMap}

\* The orders in which one range may visit the keys of a set
Perms(S) ==
    {p \in [1..Cardinality(S) -> S] : \A x \in S : \E i \in 1..Cardinality(S) : p[i] = x}

\* One order for the top-level map and one for the nested maps
RangeOrders == {<<t, n>> : t \in Perms(TopKeys), n \in Perms(NestedKeys)}

SignInit ==
    /\ signInput = [chosen |-> FALSE, data |-> NilMap]
    /\ built = <<>>

\* A caller's parameter mapping
ChooseParams ==
    /\ ~signInput.chosen
    /\ \E data \in ParamMaps : signInput' = [chosen |-> TRUE, data |-> data]
    /\ UNCHANGED <<built, hvars, avars, rvars, inserted, mvars>>

\* generateQueryParams(signInput), the maps being ranged over in some order:
\* the strings as collected, as sorted and as joined
BuildQuery ==
    /\ signInput.chosen
    /\ Len(built) < 2
    /\ \E orders \in RangeOrders :
        built' = Append(built,
                  [raw    |-> processTop(signInput.data.m,
                                         RangeKeys(signInput.data.m, orders[1]), orders),
                   result |-> sortedQueryParams(signInput.data, orders),
                   query  |-> generateQueryParams(signInput.data, orders)])
    /\ UNCHANGED <<signInput, hvars, avars, rvars, inserted, mvars>>

\* ------------------------------------------- the record for the database

RECURSIVE SortedKeys(_)
\* the keys of a set in increasing byte order
SortedKeys(S) ==
    IF S = {} THEN <<>>
    ELSE LET k == CHOOSE x \in S : \A y \in S : LexLeq(x, y)
         IN  <<k>> \o SortedKeys(S \ {k})

RECURSIVE JsonText(_)
\* json.Marshal of a value that json.Unmarshal produced: the text of a
\* number, a string, an array or an object, the keys of an object in order
JsonText(value) ==
    CASE value.t = "string" -> <<34>> \o value.v \o <<34>>
      [] value.t = "float64" -> FormatFloat(value.v)
      [] value.t = "bool" -> FormatBool(value.v)
      [] value.t = "list" ->
            <<91>> \o Join([i \in 1..Len(value.v) |-> JsonText(value.v[i])], <<44>>)
                \o <<93>>
      [] value.t = "map" ->
            LET keys == SortedKeys(DOMAIN value.v)
            IN  <<123>> \o Join([i \in 1..Len(keys) |->
                                    <<34>> \o keys[i] \o <<34, 58>>
                                        \o JsonText(value.v[keys[i]])], <<44>>)
                    \o <<125>>
      [] OTHER -> <<110, 117, 108, 108>>

\* "eco_" + strings.ReplaceAll(k, ".", "_")
FieldName(k) ==
    <<101, 99, 111, 95>> \o [i \in 1..Len(k) |-> IF k[i] = 46 THEN 95 ELSE k[i]]

\* The switch of insertMqttData: the columns it appends for one value. A
\* string and a time are taken as they are, a whole number as an int64, an
\* array and an object as their JSON text; for a value of any other type
\* nothing is appended.
ColumnsOf(value) ==
    CASE value.t = "string" -> <<value>>
      [] value.t = "float64" ->
            IF value.v % 10 = 0 THEN <<[t |-> "int64", v |-> value.v \div 10]>>
            ELSE <<value>>
      [] value.t = "time" -> <<value>>
      [] value.t \in {"list", "map"} -> <<Str(JsonText(value))>>
      [] OTHER -> <<>>

RECURSIVE InsertColumns(_, _)
\* the loop of insertMqttData over the sorted keys
InsertColumns(data, keys) ==
    IF keys = <<>> THEN <<>>
    ELSE ColumnsOf(data[Head(keys)]) \o InsertColumns(data, Tail(keys))

\* insertMqttData, the map being ranged over in the order perm
insertMqttData(data, perm) ==
    LET keys == SortStrings(RangeKeys(data, perm))
    IN  [fields |-> [i \in 1..Len(keys) |-> FieldName(keys[i])],
         rows   |-> <<InsertColumns(data, keys)>>]

\* Field names "a", "b.c" and "B"; a string, a whole number, a fraction, a
\* time, an array, an object, a boolean and null
InsertKeys == {<<97>>, <<98, 46, 99>>, <<66>>}
InsertMaps ==
    MapsOver(InsertKeys,
             {Str(<<120>>), Num(3), Float(25), Now, List(<<Num(1), Str(<<120>>)>>),
              Obj(<<99>> :> Num(1)), Bool(TRUE), Null})

\* A record of the MQTT callback is prepared for the database.
InsertMqttData ==
    /\ ~inserted.called
    /\ \E data \in InsertMaps, perm \in Perms(InsertKeys) :
        LET r == insertMqttData(data, perm)
        IN  inserted' = [called |-> TRUE, data |-> data, fields |-> r.fields,
                         rows |-> r.rows]
    /\ UNCHANGED <<hvars, svars, avars, rvars, mvars>>

\* ------------------------------------------------------- the vendor's answers

NoErr == [kind |-> "nil", code |-> <<>>, message |-> <<>>]
\* an error of the given kind, as the caller gets it
Err(kind) == [kind |-> kind, code |-> <<>>, message |-> <<>>]
\* fmt.Errorf with the envelope's code and message in its text
RemoteErr(code, message) == [kind |-> "remote", code |-> code, message |-> message]

NilVal == [t |-> "nil", v |-> 0]

\* The data of a device list: each device once, online or not.
DeviceJson(sn, online) == Obj(("sn" :> Str(sn)) @@ ("online" :> Num(online)))

DeviceListsJson ==
    {<<>>}
        \cup {<<DeviceJson(sn, o)>> : sn \in Serials, o \in {0, 1}}
        \cup {<<DeviceJson(s[1], o1), DeviceJson(s[2], o2)>> :
                s \in Perms(Serials), o1 \in {0, 1}, o2 \in {0, 1}}

\* a device's parameters, as the quota endpoint gives them
QuotaJson == Obj("pd.standbyMin" :> Num(1))

CodeParts ==
    {EmptyMap, "code" :> Str(<<48>>), "code" :> Str(<<49>>), "code" :> Num(0)}
\* "Success" and "bad key"
MessageParts ==
    {EmptyMap, "message" :> Str(<<83, 117, 99, 99, 101, 115, 115>>),
     "message" :> Str(<<98, 97, 100, 32, 107, 101, 121>>)}
DataParts ==
    {EmptyMap, "data" :> QuotaJson, "data" :> Num(1)}
        \cup {"data" :> List(l) : l \in DeviceListsJson}

EnvelopeDocs == {c @@ m @@ d : c \in CodeParts, m \in MessageParts, d \in DataParts}

\* A response body: no JSON at all, the JSON text null, or a JSON object.
Bodies ==
    {[json |-> "malformed", doc |-> EmptyMap], [json |-> "null", doc |-> EmptyMap]}
        \cup {[json |-> "object", doc |-> d] : d \in EnvelopeDocs}

NoBody == [json |-> "none", doc |-> EmptyMap]

\* What client.Do gives: a transport error, a status other than 200, or a body.
Responses ==
    {[kind |-> "neterr", body |-> NoBody], [kind |-> "status", body |-> NoBody]}
        \cup {[kind |-> "ok", body |-> b] : b \in Bodies}

\* json.Unmarshal of an object's member into a string field: a missing member
\* and null leave the field empty, any value but a string is a type error.
StringField(doc, key) ==
    IF key \notin DOMAIN doc \/ doc[key].t = "null" THEN [ok |-> TRUE, val |-> <<>>]
    ELSE IF doc[key].t = "string" THEN [ok |-> TRUE, val |-> doc[key].v]
         ELSE [ok |-> FALSE, val |-> <<>>]

\* json.Unmarshal of an object's member into an int field
IntField(doc, key) ==
    IF key \notin DOMAIN doc \/ doc[key].t = "null" THEN [ok |-> TRUE, val |-> 0]
    ELSE IF doc[key].t = "float64" /\ doc[key].v % 10 = 0
         THEN [ok |-> TRUE, val |-> doc[key].v \div 10]
         ELSE [ok |-> FALSE, val |-> 0]

\* json.Unmarshal of one array element into a DeviceInfo
DeviceInfoOf(item) ==
    IF item.t = "null" THEN [ok |-> TRUE, val |-> [SN |-> <<>>, Online |-> 0]]
    ELSE IF item.t # "map" THEN [ok |-> FALSE, val |-> [SN |-> <<>>, Online |-> 0]]
         ELSE [ok  |-> StringField(item.v, "sn").ok /\ IntField(item.v, "online").ok,
               val |-> [SN |-> StringField(item.v, "sn").val,
                        Online |-> IntField(item.v, "online").val]]

\* json.Unmarshal of the member data into []DeviceInfo
DevicesField(doc) ==
    IF "data" \notin DOMAIN doc \/ doc["data"].t = "null" THEN [ok |-> TRUE, val |-> <<>>]
    ELSE IF doc["data"].t # "list" THEN [ok |-> FALSE, val |-> <<>>]
         ELSE [ok  |-> \A i \in 1..Len(doc["data"].v) : DeviceInfoOf(doc["data"].v[i]).ok,
               val |-> [i \in 1..Len(doc["data"].v) |-> DeviceInfoOf(doc["data"].v[i]).val]]

\* json.Unmarshal(response, &deviceResponse) with a DeviceListResponse
UnmarshalDeviceListResponse(body) ==
    CASE body.json = "null" ->
            [err |-> FALSE, val |-> [Code |-> <<>>, Message |-> <<>>, Devices |-> <<>>]]
      [] body.json = "object" ->
            [err |-> ~(/\ StringField(body.doc, "code").ok
                       /\ StringField(body.doc, "message").ok
                       /\ DevicesField(body.doc).ok),
             val |-> [Code    |-> StringField(body.doc, "code").val,
                      Message |-> StringField(body.doc, "message").val,
                      Devices |-> DevicesField(body.doc).val]]
      [] OTHER ->
            [err |-> TRUE, val |-> [Code |-> <<>>, Message |-> <<>>, Devices |-> <<>>]]

\* json.Unmarshal(response, &cmdResponse) with a *CmdSetResponse: null leaves
\* the pointer nil
UnmarshalCmdSetResponse(body) ==
    CASE body.json = "null" -> [err |-> FALSE, val |-> NilVal]
      [] body.json = "object" ->
            IF StringField(body.doc, "code").ok /\ StringField(body.doc, "message").ok
            THEN [err |-> FALSE,
                  val |-> [t |-> "CmdSetResponse",
                           v |-> [Code    |-> StringField(body.doc, "code").val,
                                  Message |-> StringField(body.doc, "message").val]]]
            ELSE [err |-> TRUE, val |-> NilVal]
      [] OTHER -> [err |-> TRUE, val |-> NilVal]

\* json.Unmarshal(response, &jsonData) with a map[string]interface{}
UnmarshalJsonData(body) ==
    CASE body.json = "null" -> [err |-> FALSE, data |-> NilMap]
      [] body.json = "object" -> [err |-> FALSE, data |-> GoMap(body.doc)]
      [] OTHER -> [err |-> TRUE, data |-> NilMap]

\* ------------------------------------------------------ the signed HTTP call

\* The URLs, each the API's address followed by a path
ecoflowAPI == "https://api.ecoflow.com"
deviceListPath == "/iot-open/sign/device/list"
getAllQuotePath == "/iot-open/sign/device/quota/all"
setDeviceFunctionPath == "/iot-open/sign/device/quota"

\* the client's credentials, "AK" and "SK"
TheClient == [accessToken |-> <<65, 75>>, secretToken |-> <<83, 75>>]

NoRequest ==
    [method |-> "none", uri |-> <<>>, query |-> <<>>, body |-> NilVal,
     contentType |-> "", accessKey |-> <<>>, nonce |-> <<>>, timestamp |-> <<>>,
     sign |-> encryptHmacSHA256(<<>>, <<>>)]

\* every method sent the way a POST is
ExecuteAnyMethod(r, signParams) ==
    [err |-> NoErr,
     req |-> [NoRequest EXCEPT !.method = r.method, !.uri = r.uri,
                               !.accessKey = r.accessKey,
                               !.nonce = signParams.nonce,
                               !.timestamp = signParams.timestamp,
                               !.sign = signParams.sign]]

\* Execute up to client.Do: the request it sends, or the error it returns
\* without sending one. A GET carries the query string in its URL, a POST or
\* PUT the JSON of the parameters in its body.
ExecuteRequest(r, signParams) ==
    LET reqBody == IF r.requestParameters.nil THEN NilVal
                   ELSE [t |-> "json", v |-> r.requestParameters.m]
        withHeaders(q) ==
            [q EXCEPT !.accessKey = r.accessKey,
                      !.nonce = signParams.nonce,
                      !.timestamp = signParams.timestamp,
                      !.sign = signParams.sign]
    IN  CASE r.method = "GET" ->
                [err |-> NoErr,
                 req |-> withHeaders([NoRequest EXCEPT
                            !.method = "GET", !.uri = r.uri,
                            !.query = <<63>> \o signParams.queryParams])]
          [] r.method \in {"POST", "PUT"} ->
                [err |-> NoErr,
                 req |-> withHeaders([NoRequest EXCEPT
                            !.method = r.method, !.uri = r.uri,
                            !.body = reqBody,
                            !.contentType = "application/json;charset=UTF-8"])]
          [] OTHER -> [err |-> Err("unsupported http method"), req |-> NoRequest]

\* Execute from client.Do on: the body read, or the error
ExecuteResponse(resp) ==
    CASE resp.kind = "neterr" -> [err |-> Err("transport"), body |-> NoBody]
      [] resp.kind = "status" -> [err |-> Err("status"), body |-> NoBody]
      [] OTHER -> [err |-> NoErr, body |-> resp.body]

\* the envelope returned whatever its code is
GetDeviceListUnchecked(x) ==
    LET u == UnmarshalDeviceListResponse(x.body)
    IN  IF x.err # NoErr THEN [val |-> NilVal, err |-> x.err]
        ELSE IF u.err THEN [val |-> NilVal, err |-> Err("json")]
        ELSE [val |-> [t |-> "DeviceListResponse", v |-> u.val], err |-> NoErr]

\* GetDeviceList, from the return of Execute on
GetDeviceListResult(x) ==
    LET u == UnmarshalDeviceListResponse(x.body)
        deviceResponse == [t |-> "DeviceListResponse", v |-> u.val]
    IN  IF x.err # NoErr THEN [val |-> NilVal, err |-> x.err]
        ELSE IF u.err THEN [val |-> NilVal, err |-> Err("json")]
        ELSE IF u.val.Code # <<48>>
             THEN [val |-> deviceResponse, err |-> RemoteErr(u.val.Code, u.val.Message)]
             ELSE [val |-> deviceResponse, err |-> NoErr]

\* the selector ignored
WholeEnvelope(x, specific) ==
    IF x.err # NoErr THEN [val |-> NilVal, err |-> x.err]
    ELSE IF x.body.json # "object" THEN [val |-> NilVal, err |-> Err("json")]
    ELSE [val |-> Obj(x.body.doc), err |-> NoErr]

\* GetDeviceInfo, from the return of Execute on
GetDeviceInfoResult(x, specific) ==
    LET u == UnmarshalJsonData(x.body)
        jsonData == u.data
        codeOk == AssertsAs(jsonData, "code", "string")
        code == IF codeOk THEN jsonData.m["code"].v ELSE <<>>
    IN  IF x.err # NoErr THEN [val |-> NilVal, err |-> x.err]
        ELSE IF u.err THEN [val |-> NilVal, err |-> Err("json")]
        ELSE IF ~codeOk \/ code # <<48>>
             THEN [val |-> NilVal, err |-> RemoteErr(code, <<>>)]
        ELSE IF specific # ""
             THEN IF AssertsAs(jsonData, specific, "map")
                  THEN [val |-> jsonData.m[specific], err |-> NoErr]
                  ELSE [val |-> NilVal, err |-> Err("response is not valid")]
             ELSE [val |-> Obj(jsonData.m), err |-> NoErr]

\* SetDeviceParameter, from the return of Execute on
SetDeviceParameterResult(x) ==
    LET u == UnmarshalCmdSetResponse(x.body)
    IN  IF x.err # NoErr THEN [val |-> NilVal, err |-> x.err]
        ELSE IF u.err THEN [val |-> NilVal, err |-> Err("json")]
        ELSE [val |-> u.val, err |-> NoErr]

\* SetEnvironmentPowerConsumption, from the return of SetDeviceParameter on:
\* what it tells the operator. With no error and no response (the body null)
\* cmd.Message dereferences nil.
PowerConsumptionReport(result) ==
    IF result.err # NoErr THEN "Error set device parameter"
    ELSE IF result.val = NilVal THEN "panic"
         ELSE "Set device parameter"

\* SetEnvironmentPowerConsumption: the request it hands to SetDeviceParameter,
\* for a value given in tenths of a watt and the clock's milliseconds
PowerConsumptionRequest(converter, tenths, millis) ==
    GoMap((<<105, 100>> :> Str(Itoa(millis)))
          @@ (<<99, 109, 100, 67, 111, 100, 101>> :>
                Str(<<87, 78, 53, 49, 49, 95, 83, 69, 84, 95, 80, 69, 82, 77, 65, 78,
                      69, 78, 84, 95, 87, 65, 84, 84, 83, 95, 80, 65, 67, 75>>))
          @@ (<<115, 110>> :> Str(converter))
          @@ (<<112, 97, 114, 97, 109, 115>> :>
                Obj(<<112, 101, 114, 109, 97, 110, 101, 110, 116, 87, 97, 116, 116, 115>>
                        :> Float(tenths * 10))))

\* --------------------------------------------- the envelope operations: calls

\* generateNonce: a number of six digits
Nonces == {Itoa(100000), Itoa(999999)}
\* the readings of the clock
Clock == {1, 2}

\* the keys of a CmdSetRequest and of its params
CmdKeys ==
    {<<105, 100>>, <<99, 109, 100, 67, 111, 100, 101>>, <<115, 110>>,
     <<112, 97, 114, 97, 109, 115>>}
\* Orders in which the request of SetDeviceParameter is ranged over: those
\* that visit params first or last
CmdOrders ==
    {<<t, <<<<112, 101, 114, 109, 97, 110, 101, 110, 116, 87, 97, 116, 116, 115>>>>>> :
        t \in {p \in Perms(CmdKeys) :
                    /\ <<112, 97, 114, 97, 109, 115>> \in {p[1], p[4]}
                    /\ LexLeq(p[2], p[3])}}

NoCall ==
    [op |-> "none", r |-> NewHttpRequest("", <<>>, NilMap, <<>>, <<>>), specific |-> ""]
NoSign ==
    [queryParams |-> <<>>, nonce |-> <<>>, timestamp |-> <<>>, accessKey |-> <<>>,
     sign |-> encryptHmacSHA256(<<>>, <<>>)]
NoResponse == [kind |-> "none", body |-> NoBody]
NoRet ==
    [op |-> "none", method |-> "", specific |-> "", response |-> NoResponse,
     val |-> NilVal, err |-> NoErr, report |-> ""]

ApiInit ==
    /\ call = NoCall
    /\ signed = NoSign
    /\ sent = NoRequest
    /\ ret = NoRet

\* Execute up to client.Do, for the operation op: the sign parameters are
\* generated, and the request is sent unless the method is not supported.
ExecuteSend(op, r, specific, nonce, timestamp, orders) ==
    LET signParams == generateSignParameters(r, nonce, timestamp, orders)
        x == ExecuteRequest(r, signParams)
    IN  /\ call.op = "none"
        /\ IF x.err = NoErr
           THEN /\ call' = [op |-> op, r |-> r, specific |-> specific]
                /\ signed' = signParams
                /\ sent' = x.req
                /\ ret' = NoRet
           ELSE /\ call' = NoCall
                /\ signed' = NoSign
                /\ sent' = NoRequest
                /\ ret' = [NoRet EXCEPT !.op = op, !.method = r.method,
                                         !.specific = specific, !.err = x.err]

\* the operation op returns result, having received response; the request
\* and its sign parameters, locals of Execute, are gone
Returns(op, response, result, report) ==
    /\ call' = NoCall
    /\ signed' = NoSign
    /\ sent' = NoRequest
    /\ ret' = [op |-> op, method |-> call.r.method, specific |-> call.specific,
               response |-> response, val |-> result.val, err |-> result.err,
               report |-> report]

\* Execute of a request a caller built with NewHttpRequest
ExecuteCall ==
    /\ \E method \in {"POST", "DELETE"},
          params \in {NilMap, GoMap(<<97>> :> List(<<Str(<<120>>), GoInt(10)>>))},
          nonce \in Nonces, t \in Clock, orders \in {<<<<<<97>>>>, <<>>>>} :
            ExecuteSend("Execute",
                        NewHttpRequest(method, <<ecoflowAPI, setDeviceFunctionPath>>, params,
                                       TheClient.accessToken, TheClient.secretToken),
                        "", nonce, Itoa(t), orders)
    /\ UNCHANGED <<hvars, svars, rvars, inserted, mvars>>

ExecuteReturn(responses) ==
    /\ call.op = "Execute"
    /\ \E response \in responses :
        LET x == ExecuteResponse(response)
        IN  Returns("Execute", response,
                    [val |-> IF x.err = NoErr THEN [t |-> "bytes", v |-> x.body] ELSE NilVal,
                     err |-> x.err], "")
    /\ UNCHANGED <<hvars, svars, rvars, inserted, mvars>>

\* No HttpRequest is held.
NoHeld == NewHttpRequest("", <<>>, NilMap, <<>>, <<>>)

\* A caller builds an HttpRequest with NewHttpRequest and keeps it.
NewRequest ==
    /\ held = NoHeld
    /\ \E method \in {"GET", "PUT"},
          params \in {NilMap, GoMap(<<115, 110>> :> Str(<<65>>))} :
            held' = NewHttpRequest(method, <<ecoflowAPI, setDeviceFunctionPath>>, params,
                                   TheClient.accessToken, TheClient.secretToken)
    /\ UNCHANGED <<signlog, hvars, svars, inserted, avars, mvars>>

\* Execute of the HttpRequest held, up to client.Do: getSignParameters is
\* called, which draws a nonce and reads the clock.
ExecuteHeld ==
    /\ held # NoHeld
    /\ Len(signlog) < MaxExecutes
    /\ \E nonce \in Nonces, t \in Clock :
        /\ ExecuteSend("Execute", held, "", nonce, Itoa(t), <<<<<<115, 110>>>>, <<>>>>)
        /\ signlog' = Append(signlog, [nonce |-> nonce, timestamp |-> Itoa(t),
                                       signParams |-> signed', sent |-> sent'])
    /\ UNCHANGED <<held, hvars, svars, inserted, mvars>>

\* GetDeviceList up to client.Do
GetDeviceListSend(op) ==
    \E nonce \in Nonces, t \in Clock :
        ExecuteSend(op,
                    NewHttpRequest("GET", <<ecoflowAPI, deviceListPath>>, NilMap,
                                   TheClient.accessToken, TheClient.secretToken),
                    "", nonce, Itoa(t), <<<<>>, <<>>>>)

GetDeviceListCall ==
    /\ GetDeviceListSend("GetDeviceList")
    /\ UNCHANGED <<hvars, svars, rvars, inserted, mvars>>

GetDeviceListReturn(responses) ==
    /\ call.op = "GetDeviceList"
    /\ \E response \in responses :
        Returns("GetDeviceList", response,
                GetDeviceListResult(ExecuteResponse(response)), "")
    /\ UNCHANGED <<hvars, svars, rvars, inserted, mvars>>

\* GetDeviceInfo up to client.Do; GetDeviceAllParameters is the call with
\* specific = "data"
GetDeviceInfoCall ==
    /\ \E deviceSn \in Serials, specific \in {"", "data", "message"},
          nonce \in Nonces, t \in Clock :
            ExecuteSend("GetDeviceInfo",
                        NewHttpRequest("GET", <<ecoflowAPI, getAllQuotePath>>,
                                       GoMap(<<115, 110>> :> Str(deviceSn)),
                                       TheClient.accessToken, TheClient.secretToken),
                        specific, nonce, Itoa(t), <<<<<<115, 110>>>>, <<>>>>)
    /\ UNCHANGED <<hvars, svars, rvars, inserted, mvars>>

GetDeviceInfoReturn(responses) ==
    /\ call.op = "GetDeviceInfo"
    /\ \E response \in responses :
        Returns("GetDeviceInfo", response,
                GetDeviceInfoResult(ExecuteResponse(response), call.specific), "")
    /\ UNCHANGED <<hvars, svars, rvars, inserted, mvars>>

\* SetEnvironmentPowerConsumption up to client.Do in SetDeviceParameter
SetDeviceParameterCall ==
    /\ \E converter \in Serials, tenths \in {2000, 5}, millis \in Clock,
          nonce \in Nonces, t \in Clock, orders \in CmdOrders :
            ExecuteSend("SetDeviceParameter",
                        NewHttpRequest("PUT", <<ecoflowAPI, setDeviceFunctionPath>>,
                                       PowerConsumptionRequest(converter, tenths, millis),
                                       TheClient.accessToken, TheClient.secretToken),
                        "", nonce, Itoa(t), orders)
    /\ UNCHANGED <<hvars, svars, rvars, inserted, mvars>>

\* SetDeviceParameter from client.Do on, and what its caller reports
SetDeviceParameterReturn(responses) ==
    /\ call.op = "SetDeviceParameter"
    /\ \E response \in responses :
        LET result == SetDeviceParameterResult(ExecuteResponse(response))
        IN  Returns("SetDeviceParameter", response, result,
                    PowerConsumptionReport(result))
    /\ UNCHANGED <<hvars, svars, rvars, inserted, mvars>>

\* the list taken whatever GetDeviceList's error is
AlwaysReplaced(known, result) == result.val

\* RefreshDeviceList, from the return of GetDeviceList on: the known devices
\* afterwards
RefreshedDevices(known, result) ==
    IF result.err # NoErr THEN known ELSE result.val

\* RefreshDeviceList: GetDeviceList, whose list replaces the known devices
\* unless it returned an error
RefreshDeviceListCall ==
    /\ phase \notin {"panicked", "exited"}
    /\ GetDeviceListSend("RefreshDeviceList")
    /\ UNCHANGED <<hvars, svars, rvars, inserted, mvars>>

RefreshDeviceListReturn(responses) ==
    /\ call.op = "RefreshDeviceList"
    /\ phase \notin {"panicked", "exited"}
    /\ \E response \in responses :
        LET result == GetDeviceListResult(ExecuteResponse(response))
        IN  /\ devices' = RefreshedDevices(devices, result)
            /\ ret' = [NoRet EXCEPT !.op = "RefreshDeviceList",
                                    !.method = call.r.method,
                                    !.response = response,
                                    !.err = result.err,
                                    !.report = IF result.err # NoErr
                                               THEN "Error getting device list"
                                               ELSE ""]
    /\ call' = NoCall
    /\ signed' = NoSign
    /\ sent' = NoRequest
    /\ UNCHANGED <<hvars, svars, rvars, inserted, phase, login, certReq, creds,
                   ecoclient, connectRet, connects, oc>>

\* ------------------------------------------------- the credential exchange

\* json.Unmarshal of an object's member into a struct field: the member's
\* members, none for a missing member and for null
StructField(doc, key) ==
    IF key \notin DOMAIN doc \/ doc[key].t = "null" THEN [ok |-> TRUE, m |-> EmptyMap]
    ELSE IF doc[key].t = "map" THEN [ok |-> TRUE, m |-> doc[key].v]
         ELSE [ok |-> FALSE, m |-> EmptyMap]

\* the user "U" with the token "T"
LoginData ==
    Obj(("user" :> Obj("userId" :> Str(<<85>>))) @@ ("token" :> Str(<<84>>)))

LoginDocs ==
    {c @@ m @@ d : c \in CodeParts,
                   m \in {EmptyMap, "message" :> Str(<<98, 97, 100, 32, 107, 101, 121>>)},
                   d \in {EmptyMap, "data" :> LoginData, "data" :> Num(1)}}

\* the broker "s://h:8" with the account "u" and the password "p"
CredentialsData ==
    Obj(("certificateAccount" :> Str(<<117>>)) @@ ("certificatePassword" :> Str(<<112>>))
        @@ ("url" :> Str(<<104>>)) @@ ("port" :> Str(<<56>>))
        @@ ("protocol" :> Str(<<115>>)))

CredentialsDocs ==
    {c @@ d : c \in {EmptyMap, "code" :> Str(<<48>>), "code" :> Str(<<49>>)},
              d \in {EmptyMap, "data" :> CredentialsData, "data" :> Num(1)}}

BodiesOf(docs) ==
    {[json |-> "malformed", doc |-> EmptyMap], [json |-> "null", doc |-> EmptyMap]}
        \cup {[json |-> "object", doc |-> d] : d \in docs}

\* What client.Do gives the credential exchange, which reads the body
\* whatever the status is
ResponsesOf(docs) ==
    {[kind |-> "neterr", body |-> NoBody]}
        \cup {[kind |-> k, body |-> b] : k \in {"ok", "status"}, b \in BodiesOf(docs)}

LoginResponses == ResponsesOf(LoginDocs)
CredentialsResponses == ResponsesOf(CredentialsDocs)

\* json.Unmarshal(responseBody, &mqttLoginResponse) with a *MqttLoginResponse
UnmarshalMqttLoginResponse(body) ==
    CASE body.json = "null" -> [err |-> FALSE, val |-> NilVal]
      [] body.json = "object" ->
            LET data == StructField(body.doc, "data")
                user == StructField(data.m, "user")
            IN  IF /\ StringField(body.doc, "code").ok
                   /\ StringField(body.doc, "message").ok
                   /\ data.ok /\ user.ok
                   /\ StringField(user.m, "userId").ok
                   /\ StringField(data.m, "token").ok
                THEN [err |-> FALSE,
                      val |-> [t |-> "MqttLoginResponse",
                               v |-> [Code    |-> StringField(body.doc, "code").val,
                                      Message |-> StringField(body.doc, "message").val,
                                      UserId  |-> StringField(user.m, "userId").val,
                                      Token   |-> StringField(data.m, "token").val]]]
                ELSE [err |-> TRUE, val |-> NilVal]
      [] OTHER -> [err |-> TRUE, val |-> NilVal]

NoConfig ==
    [CertificateAccount |-> <<>>, CertificatePassword |-> <<>>, Url |-> <<>>,
     Port |-> <<>>, Protocol |-> <<>>, UserId |-> <<>>]

\* json.Unmarshal(responseBody, &mqttConn) with a *MqttCredentialsResponse
UnmarshalMqttCredentialsResponse(body) ==
    CASE body.json = "null" -> [err |-> FALSE, nil |-> TRUE, Data |-> NoConfig]
      [] body.json = "object" ->
            LET data == StructField(body.doc, "data")
                field(key) == StringField(data.m, key)
            IN  IF /\ StringField(body.doc, "code").ok
                   /\ StringField(body.doc, "message").ok
                   /\ data.ok
                   /\ \A key \in {"certificateAccount", "certificatePassword", "url",
                                  "port", "protocol", "userId"} : field(key).ok
                THEN [err |-> FALSE, nil |-> FALSE,
                      Data |-> [CertificateAccount  |-> field("certificateAccount").val,
                                CertificatePassword |-> field("certificatePassword").val,
                                Url      |-> field("url").val,
                                Port     |-> field("port").val,
                                Protocol |-> field("protocol").val,
                                UserId   |-> field("userId").val]]
                ELSE [err |-> TRUE, nil |-> TRUE, Data |-> NoConfig]
      [] OTHER -> [err |-> TRUE, nil |-> TRUE, Data |-> NoConfig]

\* getLoginResponse, from client.Do on: the login response, or an error
getLoginResponse(response) ==
    LET u == UnmarshalMqttLoginResponse(response.body)
    IN  IF response.kind = "neterr" THEN [val |-> NilVal, err |-> Err("transport")]
        ELSE IF u.err THEN [val |-> NilVal, err |-> Err("json")]
        ELSE [val |-> u.val, err |-> NoErr]

\* The envelope of a response body says code "0": the vendor accepted the
\* request.
CodeIsZero(body) ==
    /\ body.json = "object"
    /\ "code" \in DOMAIN body.doc
    /\ body.doc["code"] = Str(<<48>>)

NoLogin == [returned |-> FALSE, response |-> NoResponse, val |-> NilVal, err |-> NoErr]
NoCertReq == [sent |-> FALSE, userId |-> <<>>, authorization |-> <<>>]
NoCreds == [returned |-> FALSE, val |-> NilVal, err |-> NoErr, accepted |-> FALSE]
NoClient == [broker |-> <<>>, username |-> <<>>, password |-> <<>>, userId |-> <<>>]
NoOnConnect == [pc |-> "idle", known |-> <<>>, i |-> 0, log |-> <<>>]
NoConnectRet == [returned |-> FALSE, err |-> NoErr]

MqttInit ==
    /\ devices = NilVal
    /\ phase = "init"
    /\ login = NoLogin
    /\ certReq = NoCertReq
    /\ creds = NoCreds
    /\ ecoclient = NoClient
    /\ connectRet = NoConnectRet
    /\ connects = 0
    /\ oc = NoOnConnect

\* InitMqtt, NewMqttClient, getMqttCredentials: the call of getLoginResponse
GetLoginResponse ==
    /\ phase = "init"
    /\ \E response \in LoginResponses :
        LET result == getLoginResponse(response)
        IN  login' = [returned |-> TRUE, response |-> response,
                      val |-> result.val, err |-> result.err]
    /\ phase' = "login"
    /\ UNCHANGED <<hvars, svars, rvars, inserted, avars, devices, certReq, creds,
                   ecoclient, connectRet, connects, oc>>

\* getMqttCredentials from the return of getLoginResponse to client.Do: it
\* returns the error, or sends the certification request for the user of the
\* login response with its token. A nil login response is dereferenced.
CertificationRequest ==
    /\ phase = "login"
    /\ IF login.err # NoErr
       THEN /\ creds' = [returned |-> TRUE, val |-> NilVal, err |-> login.err,
                         accepted |-> FALSE]
            /\ phase' = "returned"
            /\ login' = NoLogin
            /\ UNCHANGED certReq
       ELSE IF login.val = NilVal
            THEN /\ phase' = "panicked"
                 /\ UNCHANGED <<login, certReq, creds>>
            ELSE /\ certReq' = [sent |-> TRUE, userId |-> login.val.v.UserId,
                                authorization |-> <<66, 101, 97, 114, 101, 114, 32>>
                                                    \o login.val.v.Token]
                 /\ phase' = "certification"
                 /\ UNCHANGED <<login, creds>>
    /\ UNCHANGED <<hvars, svars, rvars, inserted, avars, devices, ecoclient,
                   connectRet, connects, oc>>

\* getMqttCredentials from client.Do on: the broker's connection data with the
\* user of the login response, or an error. A nil response is dereferenced.
CertificationResponse ==
    /\ phase = "certification"
    /\ \E response \in CredentialsResponses :
        LET u == UnmarshalMqttCredentialsResponse(response.body)
        IN  IF response.kind = "neterr" \/ u.err
            THEN /\ creds' = [returned |-> TRUE, val |-> NilVal,
                              err |-> IF response.kind = "neterr"
                                      THEN Err("transport") ELSE Err("json"),
                              accepted |-> FALSE]
                 /\ phase' = "returned"
                 /\ login' = NoLogin
            ELSE IF u.nil
                 THEN /\ phase' = "panicked"
                      /\ UNCHANGED <<login, creds>>
                 ELSE /\ creds' = [returned |-> TRUE,
                                   val |-> [t |-> "MqttConnectionConfig",
                                            v |-> [u.Data EXCEPT
                                                     !.UserId = login.val.v.UserId]],
                                   err |-> NoErr,
                                   accepted |-> /\ CodeIsZero(login.response.body)
                                                /\ CodeIsZero(response.body)]
                      /\ phase' = "returned"
                      /\ login' = NoLogin
    /\ UNCHANGED <<hvars, svars, rvars, inserted, avars, devices, certReq, ecoclient,
                   connectRet, connects, oc>>

\* NewMqttClient from the return of getMqttCredentials on, and InitMqtt from
\* its return to Connect: an error ends the process (log.Fatalf)
NewMqttClient ==
    /\ phase = "returned"
    /\ IF creds.err # NoErr
       THEN /\ phase' = "exited"
            /\ UNCHANGED ecoclient
       ELSE /\ ecoclient' = [broker   |-> <<creds.val.v.Protocol, creds.val.v.Url,
                                            creds.val.v.Port>>,
                             username |-> creds.val.v.CertificateAccount,
                             password |-> creds.val.v.CertificatePassword,
                             userId   |-> creds.val.v.UserId]
            /\ phase' = "connecting"
    /\ UNCHANGED <<hvars, svars, rvars, inserted, avars, devices, login, certReq,
                   creds, connectRet, connects, oc>>

\* ------------------------------------------------------- the subscriptions

\* MqttClient.Connect: the error of the token of the client library's
\* Connect, once the token is done
MqttClientConnect(token) ==
    IF token.waited /\ token.err # NoErr THEN token.err ELSE NoErr

\* InitMqtt from ecoclient.Connect() on: the handshake with the broker
\* succeeds, and the client library calls OnConnect, or it fails; InitMqtt
\* returns either way.
Connect ==
    /\ phase = "connecting"
    /\ \E err \in {NoErr, Err("handshake")} :
        /\ connectRet' = [returned |-> TRUE,
                          err |-> MqttClientConnect([waited |-> TRUE, err |-> err])]
        /\ IF err = NoErr
           THEN /\ phase' = "connected"
                /\ connects' = connects + 1
                /\ oc' = [NoOnConnect EXCEPT !.pc = "called"]
           ELSE /\ phase' = "failed"
                /\ UNCHANGED <<connects, oc>>
    /\ UNCHANGED <<hvars, svars, rvars, inserted, avars, devices, login, certReq,
                   creds, ecoclient>>

\* The client library has the connection again after it was lost, with the
\* options the client was created with, and calls OnConnect.
Connected ==
    /\ phase = "lost"
    /\ oc.pc \in {"idle", "done"}
    /\ connects < MaxConnects
    /\ phase' = "connected"
    /\ connects' = connects + 1
    /\ oc' = [NoOnConnect EXCEPT !.pc = "called"]
    /\ UNCHANGED <<hvars, svars, rvars, inserted, avars, devices, login, certReq,
                   creds, ecoclient, connectRet>>

\* OnConnectionLost
ConnectionLost ==
    /\ phase = "connected"
    /\ phase' = "lost"
    /\ UNCHANGED <<hvars, svars, rvars, inserted, avars, devices, login, certReq,
                   creds, ecoclient, connectRet, connects, oc>>

\* OnConnect: the range expression devices.Devices is evaluated, once; with no
\* device list yet it dereferences nil
OnConnectRange ==
    /\ oc.pc = "called"
    /\ IF devices = NilVal
       THEN /\ oc' = [oc EXCEPT !.pc = "panicked"]
            /\ phase' = "panicked"
       ELSE /\ oc' = [oc EXCEPT !.pc = "loop", !.known = devices.v.Devices]
            /\ UNCHANGED phase
    /\ UNCHANGED <<hvars, svars, rvars, inserted, avars, devices, login, certReq,
                   creds, ecoclient, connectRet, connects>>

\* SubscribeToTopics: the subscribe request, one entry of QoS 1 per topic; it
\* returns nil whatever the token says
SubscribeToTopics(topics) ==
    [request |-> [t \in {topics[i] : i \in 1..Len(topics)} |-> 1], err |-> NoErr]

\* a subscription to something else than the device's topic
SubscribeForStatus(deviceSn) ==
    SubscribeToTopics(<<<<"", "app", "device", "status", deviceSn>>>>)

\* SubscribeForParameters
SubscribeForParameters(deviceSn) ==
    SubscribeToTopics(<<TopicOf(deviceSn)>>)

\* OnConnect: one turn of the loop, the broker granting the subscription or
\* not
OnConnectSubscribe ==
    /\ oc.pc = "loop"
    /\ oc.i < Len(oc.known)
    /\ \E granted \in BOOLEAN :
        LET d == oc.known[oc.i + 1]
            s == SubscribeForParameters(d.SN)
        IN  oc' = [oc EXCEPT !.i = oc.i + 1,
                             !.log = Append(oc.log,
                                        [sn |-> d.SN, request |-> s.request,
                                         granted |-> granted, err |-> s.err,
                                         reported |-> IF s.err # NoErr
                                                      THEN "Unable to subscribe"
                                                      ELSE "Subscribed"])]
    /\ UNCHANGED <<hvars, svars, rvars, inserted, avars, devices, phase, login,
                   certReq, creds, ecoclient, connectRet, connects>>

\* OnConnect: the end of the loop
OnConnectReturn ==
    /\ oc.pc = "loop"
    /\ oc.i = Len(oc.known)
    /\ oc' = [oc EXCEPT !.pc = "done"]
    /\ UNCHANGED <<hvars, svars, rvars, inserted, avars, devices, phase, login,
                   certReq, creds, ecoclient, connectRet, connects>>

\* ------------------------------------------------------ the specifications

\* Payloads for the handlers that run side by side: a JSON telemetry message
\* and a heartbeat frame.
StatsPayloads ==
    {[kind |-> "json", doc |-> GoMap(EnvelopeFields @@ ("params" :> Obj("x" :> Num(1)))),
      bytes |-> <<>>],
     [kind |-> "bin", doc |-> NilMap, bytes |-> <<1, 100, 65, 65>>]}

\* The answers to RefreshDeviceList: none, an envelope with a code other than
\* "0", and the lists of devices that are online.
RefreshResponses ==
    {[kind |-> "neterr", body |-> NoBody],
     [kind |-> "ok", body |-> [json |-> "malformed", doc |-> EmptyMap]],
     [kind |-> "ok",
      body |-> [json |-> "object",
                doc |-> ("code" :> Str(<<49>>))
                            @@ ("data" :> List(<<DeviceJson(<<65>>, 1)>>))]]}
        \cup {[kind |-> "ok",
               body |-> [json |-> "object",
                         doc |-> ("code" :> Str(<<48>>)) @@ ("data" :> List(l))]] :
                l \in {d \in DeviceListsJson :
                            \A i \in 1..Len(d) : d[i] = DeviceJson(d[i].v["sn"].v, 1)}}

vars == <<hvars, svars, avars, rvars, inserted, mvars>>

Init ==
    /\ HandlerInit /\ SignInit /\ ApiInit /\ MqttInit
    /\ held = NoHeld
    /\ signlog = <<>>
    /\ inserted = [called |-> FALSE, data |-> <<>>, fields |-> <<>>, rows |-> <<>>]

\* Handlers running side by side.
NextStats ==
    \/ SetDebugLevel
    \/ \E h \in Handlers :
        \/ Receive(h, StatsPayloads)
        \/ HandlerStep(h)
        \/ ConcurrentMapAccess(h)

SpecStats == Init /\ [][NextStats]_vars

\* One handler, one message after the other, any payload.
NextDecode ==
    \/ SetDebugLevel
    \/ Receive(1, Payloads)
    \/ HandlerStep(1)

SpecDecode == Init /\ [][NextDecode]_vars

\* One handler, the payloads that are cut into slices.
NextSlices ==
    \/ SetDebugLevel
    \/ Receive(1, SlicePayloads)
    \/ HandlerStep(1)

SpecSlices == Init /\ [][NextSlices]_vars

\* One handler, one message after the other, the payloads being framed with
\* the serial of a device as the marker.
NextFrames ==
    \/ SetDebugLevel
    \/ Receive(1, AllFramedPayloads)
    \/ HandlerStep(1)

SpecFrames == Init /\ [][NextFrames]_vars

\* The canonical query string, built twice from one mapping.
NextSign ==
    \/ ChooseParams
    \/ BuildQuery

SpecSign == Init /\ [][NextSign]_vars

\* One HttpRequest executed again and again.
NextHeld ==
    \/ NewRequest
    \/ ExecuteHeld
    \/ ExecuteReturn(RefreshResponses)

SpecHeld == Init /\ [][NextHeld]_vars

\* One record prepared for the database.
NextInsert == InsertMqttData

SpecInsert == Init /\ [][NextInsert]_vars

\* The envelope operations, one call after the other, any response.
NextApi ==
    \/ ExecuteCall
    \/ ExecuteReturn(Responses)
    \/ GetDeviceListCall
    \/ GetDeviceListReturn(Responses)
    \/ GetDeviceInfoCall
    \/ GetDeviceInfoReturn(Responses)
    \/ SetDeviceParameterCall
    \/ SetDeviceParameterReturn(Responses)

SpecApi == Init /\ [][NextApi]_vars

\* The credential exchange, the broker connection with its reconnects, and the
\* device list being refreshed at any time.
NextMqtt ==
    \/ GetLoginResponse
    \/ CertificationRequest
    \/ CertificationResponse
    \/ NewMqttClient
    \/ Connect
    \/ Connected
    \/ ConnectionLost
    \/ OnConnectRange
    \/ OnConnectSubscribe
    \/ OnConnectReturn
    \/ RefreshDeviceListCall
    \/ RefreshDeviceListReturn(RefreshResponses)

SpecMqtt == Init /\ [][NextMqtt]_vars

\* ------------------------------------------------------------- the claims

\* The broker-message counter of a device, as StatMqtt reports it.
MqttCounterOf(sn) ==
    IF mapStatMqtt[sn] = 0 THEN 0 ELSE statHeap[mapStatMqtt[sn]].mqttCounter

AllReturned == \A h \in Handlers : pc[h] \in {"idle", "done"}

\* C1: once all concurrent invocations of the message handler have finished,
\* the broker-message counter of every device equals the number of
\* invocations for that device, whatever the interleaving.
C1_CounterEqualsInvocations ==
    AllReturned => \A sn \in Serials : MqttCounterOf(sn) = received[sn]

\* C2: for every payload MessageHandler returns without faulting and with the
\* device's stats lock released, so the session goes on.
C2_HandlerNeverFaults ==
    /\ fault = "none"
    /\ \A h \in Handlers :
        pc[h] \in {"idle", "done"} =>
            \A i \in 1..Len(statHeap) : statHeap[i].mu # h

\* The number of records a binary frame holds under the wire contract: one
\* heartbeat for command 1, one per sub-record for command 32.
FrameRecords(frame) ==
    LET platform == UnmarshalSendHeaderMsg(frame)
    IN  IF platform.err THEN 0
        ELSE CASE platform.cmdId = 1 ->
                    IF UnmarshalInverterHeartbeat(platform.pdata).err THEN 0 ELSE 1
               [] platform.cmdId = 32 ->
                    IF UnmarshalPowerPack(platform.pdata).err THEN 0
                    ELSE Len(UnmarshalPowerPack(platform.pdata).SysPowerStream)
               [] OTHER -> 0

\* The records of a whole payload: one for a JSON object, otherwise those of
\* the frames the handler went through.
PayloadRecords(h) ==
    LET p == msg[h].payload
        sn == serialNumber(h)
        e1 == FirstEnd(p.bytes, sn)
        e2 == SecondEnd(p.bytes, sn, e1)
    IN  IF p.kind = "json" THEN 1
        ELSE FrameRecords(Slice(p.bytes, 0, e1))
             + (IF Len(p.bytes) > e1 \/ (BytesIndex(p.bytes, sn) = -1 /\ Len(p.bytes) >= Len(sn))
                THEN FrameRecords(Slice(p.bytes, e1, e2)) ELSE 0)

\* C5: every decoded record, of the JSON path or of a binary frame, reaches
\* the callback collaborator exactly once, with the device serial.
C5_EveryRecordDeliveredOnce ==
    \A h \in Handlers :
        (/\ pc[h] \in {"done", "panicked"}
         /\ ~(msg[h].payload.kind = "json" /\ msg[h].payload.doc.nil)) =>
            /\ Len(out[h]) = PayloadRecords(h)
            /\ \A i \in 1..Len(out[h]) : out[h][i].sn = serialNumber(h)

\* C10: under any interleaving at most one stats entry is created per device
\* serial, and every handler of that serial works on that one entry.
C10_OneEntryPerSerial ==
    /\ Len(statHeap) <= Cardinality({sn \in Serials : mapStatMqtt[sn] # 0})
    /\ \A h \in Handlers :
        stat[h] # 0 => stat[h] = mapStatMqtt[serialNumber(h)]

IsSortedStrings(list) ==
    \A i \in 1..(Len(list) - 1) : LexLeq(list[i], list[i + 1])

Occurrences(list, x) == Cardinality({i \in 1..Len(list) : list[i] = x})

SameStrings(a, b) ==
    /\ Len(a) = Len(b)
    /\ \A i \in 1..Len(a) : Occurrences(a, a[i]) = Occurrences(b, a[i])

\* C7: the canonical query string is the flattened key=value pairs in
\* non-decreasing byte order joined by "&", so two constructions from the same
\* mapping are byte-identical whatever the orders the maps are ranged over in.
C7_CanonicalQueryString ==
    \A i \in 1..Len(built) :
        /\ SameStrings(built[i].result, built[i].raw)
        /\ IsSortedStrings(built[i].result)
        /\ built[i].query = Join(built[i].result, <<38>>)
        /\ \A j \in 1..Len(built) : built[j].query = built[i].query

\* Two constructions that collected the pairs in different orders.
C7_Witness ==
    /\ Len(built) = 2
    /\ built[1].raw # built[2].raw
    /\ Len(built[1].raw) >= 3
    /\ built[1].query = built[2].query

\* The envelope of a response body says code "0".
EnvelopeCodeIsZero(body) ==
    /\ body.json = "object"
    /\ "code" \in DOMAIN body.doc
    /\ body.doc["code"] = Str(<<48>>)

\* C3: SetDeviceParameter returns an error whenever the response envelope
\* carries a code other than "0", and the write is reported as applied only
\* when the code is "0".
C3_SetDeviceParameterChecksCode ==
    (ret.op = "SetDeviceParameter" /\ ret.response.kind = "ok") =>
        /\ ~EnvelopeCodeIsZero(ret.response.body) => ret.err # NoErr
        /\ ret.report = "Set device parameter" => EnvelopeCodeIsZero(ret.response.body)

\* C4: when the login response has a code other than "0" or a malformed
\* body, getLoginResponse returns an error and the credential exchange does
\* not go on to the certification request.
C4_LoginFailsOnBadEnvelope ==
    (login.returned /\ ~EnvelopeCodeIsZero(login.response.body)) =>
        /\ login.err # NoErr
        /\ phase # "certification"

\* The serials of the devices known when OnConnect evaluated its range.
KnownSerials == {oc.known[i].SN : i \in 1..Len(oc.known)}

\* The subscribe requests of the invocation that are for the topic of sn alone.
RequestsFor(sn) ==
    {k \in 1..Len(oc.log) : DOMAIN oc.log[k].request = {TopicOf(sn)}}

\* C6: an invocation of OnConnect, on the first connect or a reconnect,
\* issues exactly one subscribe request for /app/device/property/<serial> for
\* every device known at that moment and none for any other serial.
C6_OneSubscribePerKnownDevice ==
    oc.pc = "done" =>
        /\ \A sn \in KnownSerials : Cardinality(RequestsFor(sn)) = 1
        /\ \A k \in 1..Len(oc.log) : \E sn \in KnownSerials : k \in RequestsFor(sn)

\* OnConnect returned on a reconnect with two devices known, the device list
\* having been replaced since it evaluated its range.
C6_Witness ==
    /\ oc.pc = "done"
    /\ connects > 1
    /\ Len(oc.known) = 2
    /\ Len(oc.log) = 2
    /\ devices.v.Devices # oc.known

\* The signing base as the vendor recomputes it: accessKey=..&nonce=..&
\* timestamp=.., after the query string and an & when there is a query string
SigningBase(accessKey, queryString, nonce, timestamp) ==
    LET base == <<97, 99, 99, 101, 115, 115, 75, 101, 121, 61>> \o accessKey
                    \o <<38, 110, 111, 110, 99, 101, 61>> \o nonce
                    \o <<38, 116, 105, 109, 101, 115, 116, 97, 109, 112, 61>> \o timestamp
    IN  IF queryString = <<>> THEN base ELSE queryString \o <<38>> \o base

\* C8: the signature of every generated set of sign parameters is the HMAC
\* under the secret key of the signing base made of its query string, access
\* key, nonce and timestamp, and the request sent carries exactly these values
\* in its accessKey, nonce, timestamp and sign headers.
C8_SignatureAndHeaders ==
    call.op # "none" =>
        /\ signed.accessKey = TheClient.accessToken
        /\ signed.sign = [hmacSha256 |-> SigningBase(signed.accessKey, signed.queryParams,
                                                     signed.nonce, signed.timestamp),
                          key |-> TheClient.secretToken]
        /\ sent.accessKey = signed.accessKey
        /\ sent.nonce = signed.nonce
        /\ sent.timestamp = signed.timestamp
        /\ sent.sign = signed.sign

\* A request sent with a query string of several pairs.
C8_Witness ==
    /\ call.op = "SetDeviceParameter"
    /\ sent.method = "PUT"
    /\ \E i \in 1..Len(signed.queryParams) : signed.queryParams[i] = 38
    /\ sent.sign = signed.sign

\* C9: GetDeviceList, GetDeviceInfo and SetDeviceParameter return either a
\* value of an envelope with code "0" and no error, or an error and no value.
C9_NoPartialSuccess ==
    ret.op \in {"GetDeviceList", "GetDeviceInfo", "SetDeviceParameter"} =>
        IF ret.err = NoErr
        THEN ret.val # NilVal /\ EnvelopeCodeIsZero(ret.response.body)
        ELSE ret.val = NilVal

\* The frame parses, carries command 1 or 32, and its pdata parses.
WellFormedFrame(frame) ==
    LET platform == UnmarshalSendHeaderMsg(frame)
    IN  /\ ~platform.err
        /\ \/ platform.cmdId = 1 /\ ~UnmarshalInverterHeartbeat(platform.pdata).err
           \/ platform.cmdId = 32 /\ ~UnmarshalPowerPack(platform.pdata).err

\* The envelope does not parse, or the pdata of its command 1 or 32 does not.
MalformedFrame(frame) ==
    LET platform == UnmarshalSendHeaderMsg(frame)
    IN  \/ platform.err
        \/ platform.cmdId = 1 /\ UnmarshalInverterHeartbeat(platform.pdata).err
        \/ platform.cmdId = 32 /\ UnmarshalPowerPack(platform.pdata).err

\* The envelope parses and carries a command other than 1 and 32.
UnknownCommandFrame(frame) ==
    LET platform == UnmarshalSendHeaderMsg(frame)
    IN  ~platform.err /\ platform.cmdId \notin {1, 32}

\* The payload of handler h read as two frames, each ending with the marker
\* of the topic's device and holding it nowhere else: the two frames without
\* their markers, if the payload is of this form.
TwoFrames(h) ==
    LET b == msg[h].payload.bytes
        sn == serialNumber(h)
        i == BytesIndex(b, sn)
        rest == Slice(b, i + Len(sn), Len(b))
        j == BytesIndex(rest, sn)
    IN  IF /\ msg[h].payload.kind = "bin"
           /\ i # -1
           /\ j # -1
           /\ j + Len(sn) = Len(rest)
        THEN {<<Slice(b, 0, i), Slice(rest, 0, j)>>}
        ELSE {}

\* C11: of a malformed binary frame followed by a well-formed one, each
\* ending with the device's serial, the first gives no record and the second
\* exactly one, or one per sub-record for command 32.
C11_MalformedThenWellFormed ==
    \A h \in Handlers : \A f \in TwoFrames(h) :
        (/\ MalformedFrame(f[1] \o serialNumber(h))
         /\ WellFormedFrame(f[2] \o serialNumber(h))) =>
            /\ pc[h] = "second" => out[h] = <<>>
            /\ pc[h] = "done" =>
                /\ Len(out[h]) = (IF f[2][1] = 32 THEN Len(f[2]) - 1 ELSE 1)
                /\ \A i \in 1..Len(out[h]) : out[h][i].sn = serialNumber(h)

\* A frame that does not parse was followed by a frame of command 32 with
\* two sub-records, and both records were handed on.
C11_Witness ==
    \E f \in TwoFrames(1) :
        /\ f[1] = <<255>>
        /\ f[2] = <<32, 100, 100>>
        /\ pc[1] = "done"
        /\ Len(out[1]) = 2

\* C13: a frame whose envelope carries a command other than 1 and 32 gives
\* no record and is not fatal: when bytes remain after it the handler goes on
\* to the second marker and decodes the second frame.
C13_UnknownCommandSkipped ==
    \A h \in Handlers : \A f \in TwoFrames(h) :
        UnknownCommandFrame(f[1] \o serialNumber(h)) =>
            /\ fault = "none"
            /\ pc[h] \in {"second", "done"} =>
                    loc[h].start = Len(f[1]) + Len(serialNumber(h))
            /\ pc[h] = "second" => out[h] = <<>>
            /\ pc[h] = "done" =>
                /\ loc[h].end = Len(msg[h].payload.bytes)
                /\ Len(out[h]) = FrameRecords(f[2] \o serialNumber(h))

\* A frame of command 7 was followed by a heartbeat, which was handed on.
C13_Witness ==
    \E f \in TwoFrames(1) :
        /\ f[1] = <<7>>
        /\ f[2] = <<1, 100>>
        /\ pc[1] = "done"
        /\ Len(out[1]) = 1

\* The fields of the record of a JSON object: those of its params when that
\* is a mapping, otherwise its own, with serial_number and timestamp added
\* where absent.
RecordFields(doc, sn) ==
    LET base == IF "params" \in DOMAIN doc /\ doc["params"].t = "map"
                THEN doc["params"].v ELSE doc
    IN  [k \in DOMAIN base \cup {"serial_number", "timestamp"} |->
            IF k \in DOMAIN base THEN base[k]
            ELSE IF k = "serial_number" THEN Str(sn) ELSE Now]

\* C12: for every payload that decodes as a JSON object the handler hands on
\* exactly one record for the topic's device, with the fields of params when
\* present and of the whole object otherwise, serial_number and timestamp
\* added only when absent, and the binary decoder is not invoked.
C12_JsonObjectOneRecord ==
    \A h \in Handlers :
        (/\ pc[h] \in {"done", "panicked"}
         /\ msg[h].payload.kind = "json"
         /\ ~msg[h].payload.doc.nil) =>
            out[h] = <<[cb   |-> "Callback",
                        data |-> RecordFields(msg[h].payload.doc.m, serialNumber(h)),
                        sn   |-> serialNumber(h)]>>

\* C14: a subscription the broker did not grant is returned as an error by
\* SubscribeToTopics and so by SubscribeForParameters, and OnConnect does not
\* report it as subscribed; a handshake that failed is returned as an error
\* by Connect.
C14_NetworkFailureSurfaced ==
    /\ \A k \in 1..Len(oc.log) :
        ~oc.log[k].granted =>
            /\ oc.log[k].err # NoErr
            /\ oc.log[k].reported # "Subscribed"
    /\ phase = "failed" => connectRet.returned /\ connectRet.err # NoErr

\* The credential exchanges made so far: getMqttCredentials is called by
\* NewMqttClient only, and InitMqtt calls NewMqttClient once.
CredentialExchanges == IF creds.returned /\ creds.err = NoErr THEN 1 ELSE 0

\* C15: every connection to the broker, the first and each reconnection, was
\* preceded by a credential exchange of its own: there are never more
\* connections than exchanges.
C15_CredentialsPerConnection == connects <= CredentialExchanges

\* C17: after a credential exchange that failed, by an error or by an
\* envelope the vendor did not mark with code "0", no broker client is
\* created and no session opened; a handshake that failed is returned by
\* Connect as an error.
C17_ConnectFailsWithError ==
    /\ (creds.returned /\ (creds.err # NoErr \/ ~creds.accepted)) =>
            /\ ecoclient = NoClient
            /\ connects = 0
            /\ ~connectRet.returned
    /\ phase = "failed" => connectRet.returned /\ connectRet.err # NoErr


\* C16: of two messages of one device, the one handed to the handler first
\* has all its records at the callback before the other has any.
C16_RecordsInHandOverOrder ==
    \A h \in Handlers, g \in Handlers :
        (/\ fault = "none"
         /\ pc[h] # "idle" /\ pc[g] # "idle"
         /\ serialNumber(h) = serialNumber(g)
         /\ msg[h].seq < msg[g].seq
         /\ out[g] # <<>>)
            => Len(out[h]) = PayloadRecords(h)


\* The body is an object whose members have the types of the device list's
\* envelope.
DeviceListEnvelope(body) ==
    /\ body.json = "object"
    /\ \A key \in {"code", "message"} \cap DOMAIN body.doc :
            body.doc[key].t = "string"
    /\ "data" \in DOMAIN body.doc => body.doc["data"].t = "list"

\* The devices of such an envelope, in its order
EnvelopeDevices(doc) ==
    IF "data" \notin DOMAIN doc THEN <<>>
    ELSE [i \in 1..Len(doc["data"].v) |->
            [SN     |-> doc["data"].v[i].v["sn"].v,
             Online |-> doc["data"].v[i].v["online"].v \div 10]]

EnvelopeMessage(doc) == IF "message" \in DOMAIN doc THEN doc["message"].v ELSE <<>>

\* C18: answered with an envelope of code "0", GetDeviceList returns no
\* error and the envelope's devices, serial and online flag, in the
\* envelope's order, with the code "0"; answered with an envelope of another
\* code, it returns an error that carries the envelope's message.
C18_GetDeviceListByCode ==
    (/\ ret.op = "GetDeviceList"
     /\ ret.response.kind = "ok"
     /\ DeviceListEnvelope(ret.response.body)) =>
        IF EnvelopeCodeIsZero(ret.response.body)
        THEN /\ ret.err = NoErr
             /\ ret.val.t = "DeviceListResponse"
             /\ ret.val.v.Code = <<48>>
             /\ ret.val.v.Devices = EnvelopeDevices(ret.response.body.doc)
        ELSE /\ ret.err.kind = "remote"
             /\ ret.err.message = EnvelopeMessage(ret.response.body.doc)

\* GetDeviceList has returned two devices, the device "AA" before "A", and
\* no error.
C18_Witness ==
    /\ ret.op = "GetDeviceList"
    /\ ret.err = NoErr
    /\ EnvelopeCodeIsZero(ret.response.body)
    /\ ret.val.t = "DeviceListResponse"
    /\ Len(ret.val.v.Devices) = 2
    /\ ret.val.v.Devices[1] = [SN |-> <<65, 65>>, Online |-> 1]
    /\ ret.val.v.Devices[2] = [SN |-> <<65>>, Online |-> 0]

\* C19: answered with an envelope of code "0", GetDeviceInfo with a selector
\* returns the mapping the envelope holds under that key, and an error and
\* no value when the key is absent or holds no mapping; with the empty
\* selector it returns the whole envelope. (GetDeviceAllParameters is the
\* call with the selector "data".)
C19_SelectorReturnsNestedMapping ==
    (/\ ret.op = "GetDeviceInfo"
     /\ ret.response.kind = "ok"
     /\ EnvelopeCodeIsZero(ret.response.body)) =>
        LET doc == ret.response.body.doc
        IN  IF ret.specific = ""
            THEN ret.err = NoErr /\ ret.val = Obj(doc)
            ELSE IF ret.specific \in DOMAIN doc /\ doc[ret.specific].t = "map"
                 THEN ret.err = NoErr /\ ret.val = doc[ret.specific]
                 ELSE ret.err # NoErr /\ ret.val = NilVal

\* GetDeviceInfo with the selector "data" has returned the device's
\* parameters out of an envelope that holds a message as well.
C19_Witness ==
    /\ ret.op = "GetDeviceInfo"
    /\ ret.specific = "data"
    /\ ret.err = NoErr
    /\ "message" \in DOMAIN ret.response.body.doc
    /\ ret.val = QuotaJson

SupportedMethods == {"GET", "POST", "PUT"}

\* C20: Execute with a method other than GET, POST and PUT returns the
\* error "unsupported http method" and has sent nothing: no request of such
\* a method exists, none waits for a response, and none was answered.
C20_UnsupportedMethodSendsNothing ==
    /\ (ret.op # "none" /\ ret.method \notin SupportedMethods) =>
            /\ ret.err = Err("unsupported http method")
            /\ ret.val = NilVal
            /\ ret.response = NoResponse
            /\ sent = NoRequest
            /\ call = NoCall
    /\ call.op # "none" => call.r.method \in SupportedMethods
    /\ sent # NoRequest => sent.method \in SupportedMethods

\* Execute of a DELETE request has returned the error.
C20_Witness ==
    /\ ret.op = "Execute"
    /\ ret.method = "DELETE"
    /\ ret.err.kind = "unsupported http method"
    /\ sent = NoRequest


\* C21: each Execute of an HttpRequest uses sign parameters generated in
\* that invocation: they carry the nonce drawn and the timestamp read in it
\* and the signature over them, the request sent carries the same, and no
\* sign parameters outlive the invocation.
C21_SignParametersFreshPerExecute ==
    /\ \A k \in 1..Len(signlog) :
        LET e == signlog[k]
        IN  /\ e.signParams.nonce = e.nonce
            /\ e.signParams.timestamp = e.timestamp
            /\ e.signParams.sign =
                    generateSign(held, e.signParams.queryParams, e.nonce, e.timestamp)
            /\ e.sent.nonce = e.nonce
            /\ e.sent.timestamp = e.timestamp
            /\ e.sent.sign = e.signParams.sign
    /\ call.op = "none" => signed = NoSign

\* The HttpRequest held was executed twice, with another nonce and another
\* timestamp the second time.
C21_Witness ==
    /\ Len(signlog) = 2
    /\ signlog[1].nonce # signlog[2].nonce
    /\ signlog[1].timestamp # signlog[2].timestamp
    /\ signlog[2].sent.method = held.method
    /\ call.op = "Execute"


\* The device-list call succeeded: a response of status 200 with an
\* envelope of code "0".
RefreshSucceeded(response) ==
    /\ response.kind = "ok"
    /\ DeviceListEnvelope(response.body)
    /\ EnvelopeCodeIsZero(response.body)

\* C22: when RefreshDeviceList returns, the known devices are the list of
\* the response and nothing else if the device-list call succeeded, and
\* what they were before if it failed.
C22_RefreshReplacesOrKeeps ==
    [][(call.op = "RefreshDeviceList" /\ ret'.op = "RefreshDeviceList") =>
            IF RefreshSucceeded(ret'.response)
            THEN /\ devices'.t = "DeviceListResponse"
                 /\ devices'.v.Devices = EnvelopeDevices(ret'.response.body.doc)
            ELSE devices' = devices]_vars

\* RefreshDeviceList has returned without an error, and the known devices
\* are the fetched list, another one than OnConnect ranged over before.
C22_Witness ==
    /\ ret.op = "RefreshDeviceList"
    /\ ret.err = NoErr
    /\ oc.pc = "done"
    /\ oc.known # <<>>
    /\ devices.t = "DeviceListResponse"
    /\ devices.v.Devices # oc.known
    /\ devices.v.Devices = EnvelopeDevices(ret.response.body.doc)

\* C23: OnConnect called while the known devices were never set issues no
\* subscription and does not fault.
C23_OnConnectWithoutDevices ==
    (devices = NilVal /\ oc.pc # "idle") =>
        /\ oc.pc # "panicked"
        /\ oc.log = <<>>


\* The position just past the first occurrence of the marker in the payload,
\* its length when there is none
PastFirstMarker(payload, sn) ==
    LET ends == {e \in Len(sn)..Len(payload) :
                    SubSeq(payload, e - Len(sn) + 1, e) = sn}
    IN  IF ends = {} THEN Len(payload)
        ELSE CHOOSE e \in ends : \A f \in ends : e <= f

\* C24: for a payload that is not JSON the handler hands at most two slices
\* to DisplayPayload, payload[0:e1] and then payload[e1:e2], where e1 is
\* the position just past the first marker and 0 <= e1 <= e2 <= len(payload);
\* nothing after e2 is handed over.
C24_AtMostTwoConsecutiveSlices ==
    \A h \in Handlers :
        (pc[h] \in {"second", "done"} /\ msg[h].payload.kind = "bin") =>
            LET payload == msg[h].payload.bytes
                frames == loc[h].frames
                e1 == PastFirstMarker(payload, serialNumber(h))
            IN  /\ Len(frames) \in {1, 2}
                /\ frames[1] = <<0, e1>>
                /\ 0 <= e1 /\ e1 <= Len(payload)
                /\ Len(frames) = 2 =>
                        /\ frames[2][1] = e1
                        /\ e1 <= frames[2][2]
                        /\ frames[2][2] <= Len(payload)

\* The handler has decoded "A" and "\x01A" of the payload "A\x01AA" of the
\* device "A" and leaves the last byte alone.
C24_Witness ==
    \E h \in Handlers :
        /\ pc[h] = "done"
        /\ serialNumber(h) = <<65>>
        /\ msg[h].payload.bytes = <<65, 1, 65, 65>>
        /\ loc[h].frames = <<<<0, 1>>, <<1, 3>>>>


\* C26: a JSON payload on a topic ends the handler the same way, normally
\* or not, and with the same record at the callback, as it would at the
\* other debug level.
C26_DebugLevelDoesNotMatter ==
    \A h \in Handlers :
        (pc[h] \in {"done", "panicked"} /\ msg[h].payload.kind = "json") =>
            LET other == JsonRecord(serialNumber(h), msg[h].payload.doc, ~debug)
            IN  /\ (pc[h] = "panicked") = other.panic
                /\ pc[h] = "done" =>
                        out[h] = <<[cb |-> "Callback", data |-> other.rec,
                                    sn |-> serialNumber(h)]>>


\* C25: for every field mapping insertMqttData returns the names of its
\* fields, "eco_" and the key with its dots replaced, in the order of the
\* sorted keys, and one row with as many columns, the i-th column being the
\* value of the i-th field, whatever the types of the values.
C25_OneColumnPerField ==
    inserted.called =>
        LET keys == SortedKeys(DOMAIN inserted.data)
        IN  /\ inserted.fields = [i \in 1..Len(keys) |-> FieldName(keys[i])]
            /\ Len(inserted.rows) = 1
            /\ Len(inserted.rows[1]) = Len(inserted.fields)
            /\ \A i \in 1..Len(keys) :
                    ColumnsOf(inserted.data[keys[i]]) # <<>> =>
                        <<inserted.rows[1][i]>> = ColumnsOf(inserted.data[keys[i]])

====
